---------------------------- MODULE Spec2Model ----------------------------
(***************************************************************************)
(* EdgeOrchestra orchestrator: the training coordinator (polling loop and  *)
(* one training-loop task per job), the stop / retry operations of the     *)
(* HTTP API and dashboard, the heartbeat handler, the gradient upload RPC  *)
(* and the device scheduler, over the durable job/device/model rows and    *)
(* the Redis keyspace they share.                                          *)
(*                                                                         *)
(* One step of a training loop or of the polling loop is the code between  *)
(* two suspension points (awaits); a read followed by a write that depends *)
(* only on that read is one step where no other task can write the value   *)
(* in between.  A request handler (stop, retry, heartbeat, upload) is one  *)
(* step.                                                                   *)
(***************************************************************************)
EXTENDS Integers, Sequences, FiniteSets, TLC

(***************************************************************************)
(* Bounds of the model.                                                    *)
(***************************************************************************)
NumDevices == 1   \* registered devices
NumRounds == 2    \* num_rounds of the job
MaxStale == 3     \* training-loop steps during one pass of the polling loop
MaxQueued == 2    \* commands queued for one device
MaxStored == 4    \* envelopes in the buckets when anyone may submit
MaxRequests == 2  \* requests written to the heartbeat stream
MaxLayers == 2    \* layers of a gradient blob or a weight map
MaxElems == 1     \* elements of a layer
MaxSubmissions == 2  \* submissions given to the averager
MaxPool == 3      \* devices given to the scheduler
(* settings.training_round_timeout_seconds (180 unless the environment     *)
(* sets it): here a round waits one poll interval for its gradients.       *)
training_round_timeout_seconds == 2

(* The training job of the model (one row of training_jobs). *)
Jobs == {1}
Devices == 1..NumDevices
Rounds == 1..NumRounds
(* The device ids a command queue can be named by: any string will do, so  *)
(* those of the registered devices and one that names no device.           *)
CommandDeviceIds == 1..(NumDevices + 1)
(* The commands queued ("type" of the command dict). *)
Commands == {[type |-> "start_training"], [type |-> "stop_training"]}

(***************************************************************************)
(* Program constants.                                                      *)
(***************************************************************************)
max_device_wait_retries == 30
max_round_retries == 2
poll_interval == 2

(* Percent units: 0.20 is 20. *)
min_battery == 20
max_thermal_pressure == 70
max_cpu_usage == 90
WeightBattery == 35
WeightThermal == 25
WeightCpuLoad == 20
WeightMemoryLoad == 10
WeightHardware == 10
ChargingBonus == 15
DefaultSubScore == 50

None == -1

(***************************************************************************)
(* Devices as the scheduler sees them.  A device row carries battery_level *)
(* (set by heartbeats), and in this fleet no metrics map and no hardware   *)
(* descriptor, so the corresponding reads return None.                     *)
(***************************************************************************)
LowBattery == 10
HighBattery == 90
(* The level each device reports: the newest device runs on a low battery. *)
BatteryOf(d) == IF d = NumDevices /\ d > 1 THEN LowBattery ELSE HighBattery

VARIABLES
    jobStatus,      \* training_jobs.status
    currentRound,   \* training_jobs.current_round
    roundMetrics,   \* training_jobs.round_metrics["rounds"]
    minDevices,     \* training_jobs.min_devices
    schedEnabled,   \* training_jobs.config["scheduler"]["enabled"]
    modelVersion,   \* models.version
    modelStatus,    \* models.status
    devStatus,      \* devices.status
    devBattery,     \* devices.battery_level
    stopFlag,       \* Redis training:<job>:stop
    blob,           \* Redis model:<model>:global (None when the key is absent)
    meta,           \* Redis model:<model>:meta, its version (None when absent)
    bucket,         \* Redis gradients:<model>:<round>
    active,         \* TrainingCoordinator._active_jobs
    taskCount,      \* number of live _run_training_loop tasks per job
    pc,             \* position of the job's training loop
    roundNum,       \* round_num
    attempt,        \* attempt of the device wait loop
    waitTime,       \* wait_time of the last sleep of the device wait loop
    retry,          \* retry of the round retry loop
    sent,           \* start_training dispatches of the round so far
    elapsed,        \* elapsed of _wait_for_gradients
    devices,        \* devices (the selection of the round)
    dispatched,     \* dispatched_device_ids
    allMetrics,     \* all_round_metrics
    collected,      \* collected
    ppc,            \* position of TrainingCoordinator.run
    pendingList,    \* pending_jobs still to start
    runningList,    \* running_jobs still to look at (rows as listed)
    stale,          \* training-loop steps taken since the lists were read
    hbKey,          \* Redis heartbeat:<device> exists (it expires by itself)
    seenOld,        \* now - devices.last_seen_at exceeds timeout_seconds
    spc,            \* position of _check_stale_devices
    sweepList,      \* devices of the sweep still to look at (rows as listed)
    cmdQueue,       \* Redis command:<device_id>
    queued,         \* history: the commands queue_command was given
    popped,         \* history: the commands get_pending_command returned
    requests,       \* the requests the client wrote to the heartbeat stream
    handled,        \* how many of them Heartbeat has taken
    responses,      \* the responses Heartbeat has yielded
    streamOpen,     \* Heartbeat has not ended
    modelRows,      \* the ids of the rows of models
    call,           \* the function or handler called last, with its arguments
    result          \* what that call returned

jobVars == <<jobStatus, currentRound, roundMetrics, minDevices, schedEnabled>>
modelVars == <<modelVersion, modelStatus>>
devVars == <<devStatus, devBattery>>
redisVars == <<stopFlag, blob, meta, bucket>>
loopVars == <<active, taskCount, pc, roundNum, attempt, waitTime, retry,
              sent, elapsed,
              devices, dispatched, allMetrics, collected>>
pollVars == <<ppc, pendingList, runningList>>
(* One pass of the polling loop over its two lists takes a few store round *)
(* trips, a step of a training loop a store round trip or a sleep of       *)
(* seconds: while the polling loop holds listed rows it has not looked at  *)
(* yet, the training loops take at most MaxStale steps.                    *)
ListsEmpty == pendingList = <<>> /\ runningList = <<>>

LoopTick ==
    /\ (ListsEmpty \/ stale < MaxStale)
    /\ stale' = IF ListsEmpty THEN 0 ELSE stale + 1

monitorVars == <<hbKey, seenOld, spc, sweepList>>
commandVars == <<cmdQueue, queued, popped>>
streamVars == <<requests, handled, responses, streamOpen>>
rpcVars == <<commandVars, streamVars>>
orchestratorVars == <<jobVars, modelVars, devVars, redisVars, loopVars,
                      pollVars, stale, monitorVars>>
libVars == <<modelRows, call, result>>
vars == <<orchestratorVars, rpcVars, libVars>>

(* Jobs created through the API always reference a model row; in this     *)
(* deployment every job trains the same model.                            *)
Models == {1}
ModelOf(j) == 1

Terminal == {"completed", "stopped", "failed"}

(***************************************************************************)
(* Sequence helpers.                                                       *)
(***************************************************************************)
Range(s) == {s[i] : i \in 1..Len(s)}

RECURSIVE SeqDesc(_)
SeqDesc(S) ==
    IF S = {} THEN <<>>
    ELSE LET m == CHOOSE x \in S : \A y \in S : y <= x
         IN <<m>> \o SeqDesc(S \ {m})

Max(a, b) == IF a >= b THEN a ELSE b
Min(a, b) == IF a <= b THEN a ELSE b

(***************************************************************************)
(* Device scheduler (device_scheduler.py).                                 *)
(***************************************************************************)
_DEFAULT_WEIGHTS ==
    [battery |-> WeightBattery, thermal |-> WeightThermal,
     cpu_load |-> WeightCpuLoad, memory_load |-> WeightMemoryLoad,
     hardware |-> WeightHardware]

SchedulerConfig(enabled) ==
    [enabled |-> enabled, target_devices |-> None, min_battery |-> min_battery,
     allow_low_power_mode |-> FALSE,
     max_thermal_pressure |-> max_thermal_pressure,
     max_cpu_usage |-> max_cpu_usage, weights |-> _DEFAULT_WEIGHTS]

(* The device object handed to the scheduler: the row as listed. *)
DeviceRow(d) ==
    [id |-> d, battery_level |-> devBattery[d], battery_state |-> "unknown",
     is_low_power_mode |-> FALSE, thermal_pressure |-> None, cpu_usage |-> None,
     memory_usage |-> None, neural_engine_cores |-> 0, memory_bytes |-> 0]

(* A battery level equal to min_battery is rejected too. *)
_is_eligible_strict(device, cfg) ==
    /\ ~(device.battery_level # None
             /\ device.battery_level <= cfg.min_battery)
    /\ ~(device.is_low_power_mode /\ ~cfg.allow_low_power_mode)
    /\ ~(device.thermal_pressure # None
             /\ device.thermal_pressure > cfg.max_thermal_pressure)
    /\ ~(device.cpu_usage # None /\ device.cpu_usage > cfg.max_cpu_usage)

_is_eligible(device, cfg) ==
    IF device.battery_level # None /\ device.battery_level < cfg.min_battery
    THEN FALSE
    ELSE IF device.is_low_power_mode /\ ~cfg.allow_low_power_mode
    THEN FALSE
    ELSE IF device.thermal_pressure # None
            /\ device.thermal_pressure > cfg.max_thermal_pressure
    THEN FALSE
    ELSE IF device.cpu_usage # None /\ device.cpu_usage > cfg.max_cpu_usage
    THEN FALSE
    ELSE TRUE

(* The score with the thermal pressure itself as the thermal sub-score. *)
_score_device_hot(device, cfg, pool_max_ne, pool_max_mem) ==
    LET w == cfg.weights
        battery_score ==
            IF device.battery_level # None
            THEN Min(device.battery_level
                     + (IF device.battery_state \in {"charging", "full"}
                        THEN ChargingBonus ELSE 0), 100)
            ELSE DefaultSubScore
        thermal_score == IF device.thermal_pressure # None
                         THEN device.thermal_pressure ELSE DefaultSubScore
        cpu_score == IF device.cpu_usage # None
                     THEN 100 - device.cpu_usage ELSE DefaultSubScore
        mem_score == IF device.memory_usage # None
                     THEN 100 - device.memory_usage ELSE DefaultSubScore
        NeNum == IF pool_max_ne > 0 THEN device.neural_engine_cores ELSE 1
        NeDen == IF pool_max_ne > 0 THEN pool_max_ne ELSE 2
        MemNum == IF pool_max_mem > 0 THEN device.memory_bytes ELSE 1
        MemDen == IF pool_max_mem > 0 THEN pool_max_mem ELSE 2
    IN (w.battery * battery_score + w.thermal * thermal_score
        + w.cpu_load * cpu_score + w.memory_load * mem_score)
           * 2 * NeDen * MemDen
       + w.hardware * 100 * (NeNum * MemDen + MemNum * NeDen)

(* The score scaled by 100 * 100 * 2 * NeDen * MemDen, which is the same   *)
(* positive factor for every device of one pool.                           *)
_score_device(device, cfg, pool_max_ne, pool_max_mem) ==
    LET w == cfg.weights
        battery_score ==
            IF device.battery_level # None
            THEN Min(device.battery_level
                     + (IF device.battery_state \in {"charging", "full"}
                        THEN ChargingBonus ELSE 0), 100)
            ELSE DefaultSubScore
        thermal_score == IF device.thermal_pressure # None
                         THEN 100 - device.thermal_pressure ELSE DefaultSubScore
        cpu_score == IF device.cpu_usage # None
                     THEN 100 - device.cpu_usage ELSE DefaultSubScore
        mem_score == IF device.memory_usage # None
                     THEN 100 - device.memory_usage ELSE DefaultSubScore
        NeNum == IF pool_max_ne > 0 THEN device.neural_engine_cores ELSE 1
        NeDen == IF pool_max_ne > 0 THEN pool_max_ne ELSE 2
        MemNum == IF pool_max_mem > 0 THEN device.memory_bytes ELSE 1
        MemDen == IF pool_max_mem > 0 THEN pool_max_mem ELSE 2
    IN (w.battery * battery_score + w.thermal * thermal_score
        + w.cpu_load * cpu_score + w.memory_load * mem_score)
           * 2 * NeDen * MemDen
       + w.hardware * 100 * (NeNum * MemDen + MemNum * NeDen)

RECURSIVE SeqMax(_, _)
SeqMax(s, default) ==
    IF s = <<>> THEN default ELSE Max(Head(s), SeqMax(Tail(s), Head(s)))

(* sorted(..., reverse=True) is stable: equal keys keep their input order. *)
RECURSIVE InsertDesc(_, _)
InsertDesc(x, s) ==
    IF s = <<>> THEN <<x>>
    ELSE IF Head(s).key >= x.key THEN <<Head(s)>> \o InsertDesc(x, Tail(s))
    ELSE <<x>> \o s

(* Sorts a sequence of [item, key] pairs by key, largest first. *)
RECURSIVE SortedDesc(_)
SortedDesc(s) ==
    IF s = <<>> THEN <<>>
    ELSE LET n == Len(s)
         IN InsertDesc(s[n], SortedDesc(SubSeq(s, 1, n - 1)))

(* select_devices returns a list or None; the result is a record so that   *)
(* the two cases can be compared.                                          *)
Absent == [absent |-> TRUE, devices |-> <<>>]
Selected(devs) == [absent |-> FALSE, devices |-> devs]

(* The target is not clamped to min_devices. *)
select_devices_unclamped(devs, cfg, min_devices) ==
    IF ~cfg.enabled THEN Selected(devs)
    ELSE LET eligible == SelectSeq(devs, LAMBDA d : _is_eligible(d, cfg))
         IN IF Len(eligible) < min_devices THEN Absent
            ELSE LET pool_max_ne ==
                         SeqMax([i \in 1..Len(eligible) |->
                                     eligible[i].neural_engine_cores], 0)
                     pool_max_mem ==
                         SeqMax([i \in 1..Len(eligible) |->
                                     eligible[i].memory_bytes], 0)
                     keyed == [i \in 1..Len(eligible) |->
                                  [item |-> eligible[i],
                                   key |-> _score_device(eligible[i], cfg,
                                               pool_max_ne, pool_max_mem)]]
                     sorted == SortedDesc(keyed)
                     scored == [i \in 1..Len(sorted) |-> sorted[i].item]
                     target == cfg.target_devices
                 IN IF target = None THEN Selected(scored)
                    ELSE Selected(SubSeq(scored, 1,
                                Min(target, Len(scored))))

select_devices(devs, cfg, min_devices) ==
    IF ~cfg.enabled THEN Selected(devs)
    ELSE LET eligible == SelectSeq(devs, LAMBDA d : _is_eligible(d, cfg))
         IN IF Len(eligible) < min_devices THEN Absent
            ELSE LET pool_max_ne ==
                         SeqMax([i \in 1..Len(eligible) |->
                                     eligible[i].neural_engine_cores], 0)
                     pool_max_mem ==
                         SeqMax([i \in 1..Len(eligible) |->
                                     eligible[i].memory_bytes], 0)
                     keyed == [i \in 1..Len(eligible) |->
                                  [item |-> eligible[i],
                                   key |-> _score_device(eligible[i], cfg,
                                               pool_max_ne, pool_max_mem)]]
                     sorted == SortedDesc(keyed)
                     scored == [i \in 1..Len(sorted) |-> sorted[i].item]
                     target == cfg.target_devices
                 IN IF target = None THEN Selected(scored)
                    ELSE Selected(SubSeq(scored, 1,
                                Min(Max(target, min_devices), Len(scored))))

(* DeviceRepository.list_all(status): newest registration first. *)
list_all_devices(status) ==
    LET ids == SeqDesc({d \in Devices : devStatus[d] = status})
    IN [i \in 1..Len(ids) |-> DeviceRow(ids[i])]

(***************************************************************************)
(* Initial state: the orchestrator process has just started; the API has   *)
(* created the jobs (status pending, current_round 0, no round records)    *)
(* and their model row; Redis holds no key of theirs yet.  No job was      *)
(* running when the process started, so the resume pass at the top of      *)
(* TrainingCoordinator.run has found nothing to resume.                    *)
(***************************************************************************)
(* The Redis keys of the given jobs and models: none exists. *)
InitRedis(job_ids, model_ids) ==
    /\ stopFlag = [j \in job_ids |-> FALSE]
    /\ blob = [m \in model_ids |-> None]
    /\ meta = [m \in model_ids |-> None]
    /\ bucket = [m \in model_ids |-> [r \in Rounds |-> <<>>]]

(* The rows of the given jobs and models, the devices and the tasks of the *)
(* orchestrator when it has just started.                                  *)
InitRows(job_ids, model_ids) ==
    /\ jobStatus = [j \in job_ids |-> "pending"]
    /\ currentRound = [j \in job_ids |-> 0]
    /\ roundMetrics = [j \in job_ids |-> <<>>]
    /\ minDevices = [j \in job_ids |-> 1]
    /\ schedEnabled \in [job_ids -> BOOLEAN]
    /\ modelVersion = [m \in model_ids |-> 0]
    /\ modelStatus = [m \in model_ids |-> "initial"]
    /\ devStatus = [d \in Devices |-> "offline"]
    /\ devBattery = [d \in Devices |-> BatteryOf(d)]
    /\ active = {}
    /\ taskCount = [j \in job_ids |-> 0]
    /\ pc = [j \in job_ids |-> "idle"]
    /\ roundNum = [j \in job_ids |-> 0]
    /\ attempt = [j \in job_ids |-> 0]
    /\ waitTime = [j \in job_ids |-> 0]
    /\ retry = [j \in job_ids |-> 0]
    /\ sent = [j \in job_ids |-> 0]
    /\ elapsed = [j \in job_ids |-> 0]
    /\ devices = [j \in job_ids |-> <<>>]
    /\ dispatched = [j \in job_ids |-> <<>>]
    /\ allMetrics = [j \in job_ids |-> <<>>]
    /\ collected = [j \in job_ids |-> <<>>]
    /\ ppc = "poll"
    /\ pendingList = <<>>
    /\ runningList = <<>>
    /\ stale = 0
    /\ hbKey = [d \in Devices |-> FALSE]
    /\ seenOld = [d \in Devices |-> TRUE]
    /\ spc = "list"
    /\ sweepList = <<>>
    /\ cmdQueue = [d \in CommandDeviceIds |-> <<>>]
    /\ queued = [d \in CommandDeviceIds |-> <<>>]
    /\ popped = [d \in CommandDeviceIds |-> <<>>]
    /\ requests = <<>>
    /\ handled = 0
    /\ responses = <<>>
    /\ streamOpen = TRUE
    /\ modelRows = model_ids

(* The stores and the tasks of the orchestrator when it has just started. *)
InitStores ==
    /\ InitRows(Jobs, Models)
    /\ InitRedis(Jobs, Models)

(* No function of the library has been called. *)
NoCall == [fn |-> "none"]

Init ==
    /\ InitStores
    /\ call = NoCall
    /\ result = NoCall

(***************************************************************************)
(* Helpers of the training coordinator (training_coordinator.py).          *)
(***************************************************************************)

(* Mutant: the blob is created afresh whether it is there or not. *)
EnsureModelBlob_Always(m) == [blob EXCEPT ![m] = 0]

(* start_job / resume_job: create the model blob and meta when the blob    *)
(* key is missing, leave both alone otherwise.                             *)
EnsureModelBlob(m) == [blob EXCEPT ![m] = IF @ = None THEN 0 ELSE @]
EnsureModelMeta(m) == [meta EXCEPT ![m] = IF blob[m] = None THEN 0 ELSE @]

(* The task created by start_job / resume_job. *)
CreateTask(j, start_round, existing_metrics) ==
    /\ active' = active \cup {j}
    /\ taskCount' = [taskCount EXCEPT ![j] = Min(@ + 1, 2)]
    /\ pc' = [pc EXCEPT ![j] = "round_begin"]
    /\ roundNum' = [roundNum EXCEPT ![j] = start_round]
    /\ allMetrics' = [allMetrics EXCEPT ![j] = existing_metrics]
    /\ dispatched' = [dispatched EXCEPT ![j] = <<>>]
    /\ devices' = [devices EXCEPT ![j] = <<>>]
    /\ collected' = [collected EXCEPT ![j] = <<>>]
    /\ attempt' = [attempt EXCEPT ![j] = 0]
    /\ waitTime' = [waitTime EXCEPT ![j] = 0]
    /\ retry' = [retry EXCEPT ![j] = 0]
    /\ sent' = [sent EXCEPT ![j] = 0]
    /\ elapsed' = [elapsed EXCEPT ![j] = 0]

(* DeviceRepository.update sets last_seen_at to now for the rows it writes. *)
SeenAfterUpdate(ids) == [d \in Devices |-> IF d \in ids THEN FALSE ELSE seenOld[d]]

(* Mutant: the release leaves the device rows as they are. *)
_restore_device_statuses_None(device_ids) == devStatus

(* _restore_device_statuses: the device statuses after the call. *)
_restore_device_statuses(device_ids) ==
    [d \in Devices |->
        IF d \in Range(device_ids) /\ devStatus[d] = "training"
        THEN "online" ELSE devStatus[d]]

(* Mutant: the cleanup deletes the stop flag of every job. *)
CleanupStopFlag_All(j) == [i \in DOMAIN stopFlag |-> FALSE]

(* _cleanup_redis_keys, by key family: the values after the call. *)
CleanupStopFlag(j) == [stopFlag EXCEPT ![j] = FALSE]
(* Mutant: the cleanup keeps the model blob whatever keep_model says. *)
CleanupBlob_Keep(m, keep_model) == blob

CleanupBlob(m, keep_model) == IF keep_model THEN blob ELSE [blob EXCEPT ![m] = None]
CleanupMeta(m, keep_model) == IF keep_model THEN meta ELSE [meta EXCEPT ![m] = None]
(* Mutant: the cleanup leaves the gradient buckets alone. *)
CleanupBuckets_Keep(m) == bucket

CleanupBuckets(m) == [bucket EXCEPT ![m] = [r \in Rounds |-> <<>>]]

(* Lines 341-356: the submissions that pass validation. *)
IsValidEntry(e) == e # "invalid"
gradient_data(entries) == SelectSeq(entries, IsValidEntry)

RoundRecord(r, skipped) == [round |-> r, skipped |-> skipped]

(* Mutant: the backoff without its 120 second cap. *)
wait_time_uncapped(attempt_k) == 10 * (2 ^ Min(attempt_k, 4))

(* wait_time = min(10 * (2 ** min(attempt, 4)), 120). *)
wait_time(attempt_k) == Min(10 * (2 ^ Min(attempt_k, 4)), 120)

(***************************************************************************)
(* _run_training_loop, one action per step of job j's task.                *)
(***************************************************************************)
(* Top of the round loop: range exhausted, stop check, checkpoint write. *)
RoundBegin(j) ==
    /\ pc[j] = "round_begin"
    /\ LoopTick
    /\ IF roundNum[j] > NumRounds
       THEN /\ pc' = [pc EXCEPT ![j] = "complete"]
            /\ UNCHANGED <<jobStatus, currentRound>>
       ELSE IF stopFlag[j]
       THEN /\ jobStatus' = [jobStatus EXCEPT ![j] = "stopped"]
            /\ pc' = [pc EXCEPT ![j] = "cleanup_stop"]
            /\ UNCHANGED currentRound
       ELSE /\ currentRound' = [currentRound EXCEPT ![j] = roundNum[j]]
            /\ pc' = [pc EXCEPT ![j] = "device_wait"]
            /\ UNCHANGED jobStatus
    /\ attempt' = [attempt EXCEPT ![j] = 0]
    /\ waitTime' = [waitTime EXCEPT ![j] = 0]
    /\ UNCHANGED <<roundMetrics, minDevices, schedEnabled, modelVars, devVars,
                   redisVars, active, taskCount, roundNum, retry, sent, elapsed,
                   devices, dispatched, allMetrics, collected,
                   pollVars>>
    /\ UNCHANGED monitorVars
    /\ UNCHANGED rpcVars
    /\ UNCHANGED libVars

(* One attempt of the device wait loop: stop check, list, select.  The     *)
(* selection is the one value select_devices returns for the listed rows.  *)
DeviceWait(j) ==
    /\ pc[j] = "device_wait"
    /\ LoopTick
    /\ attempt[j] < max_device_wait_retries
    /\ IF stopFlag[j]
       THEN /\ jobStatus' = [jobStatus EXCEPT ![j] = "stopped"]
            /\ pc' = [pc EXCEPT ![j] = "cleanup_stop"]
            /\ attempt' = [attempt EXCEPT ![j] = 0]
            /\ waitTime' = [waitTime EXCEPT ![j] = 0]
            /\ UNCHANGED <<devices, dispatched>>
       ELSE \E selected \in {select_devices(list_all_devices("online"),
                                   SchedulerConfig(schedEnabled[j]),
                                   minDevices[j])} :
            LET ids == [i \in 1..Len(selected.devices) |->
                           selected.devices[i].id]
            IN IF selected # Absent
               THEN /\ devices' = [devices EXCEPT ![j] = ids]
                    /\ dispatched' = [dispatched EXCEPT ![j] = ids]
                    /\ pc' = [pc EXCEPT ![j] = "reserve"]
                    /\ attempt' = [attempt EXCEPT ![j] = 0]
                    /\ waitTime' = [waitTime EXCEPT ![j] = 0]
                    /\ UNCHANGED jobStatus
               ELSE /\ attempt' = [attempt EXCEPT ![j] = @ + 1]
                    /\ waitTime' = [waitTime EXCEPT ![j] = wait_time(attempt[j])]
                    /\ UNCHANGED <<jobStatus, pc, devices, dispatched>>
    /\ UNCHANGED <<currentRound, roundMetrics, minDevices, schedEnabled,
                   modelVars, devVars, redisVars, active, taskCount, roundNum,
                   retry, sent, elapsed, allMetrics, collected,
                   pollVars>>
    /\ UNCHANGED monitorVars
    /\ UNCHANGED rpcVars
    /\ UNCHANGED libVars

(* The for-else of the device wait loop: every attempt found too few. *)
DeviceWaitExhausted(j) ==
    /\ pc[j] = "device_wait"
    /\ LoopTick
    /\ attempt[j] = max_device_wait_retries
    /\ jobStatus' = [jobStatus EXCEPT ![j] = "failed"]
    /\ pc' = [pc EXCEPT ![j] = "cleanup_keep"]
    /\ UNCHANGED <<currentRound, roundMetrics, minDevices, schedEnabled,
                   modelVars, devVars, redisVars, active, taskCount, roundNum, attempt, waitTime,
                   retry, sent, elapsed, devices, dispatched, allMetrics, collected, pollVars>>
    /\ UNCHANGED monitorVars
    /\ UNCHANGED rpcVars
    /\ UNCHANGED libVars

(* Mark the selection "training", then write the learning rate into the    *)
(* model blob (base64.b64decode(None) raises when the blob key is gone).   *)
Reserve(j) ==
    /\ pc[j] = "reserve"
    /\ LoopTick
    /\ devStatus' = [d \in Devices |->
                        IF d \in Range(devices[j]) THEN "training"
                        ELSE devStatus[d]]
    /\ pc' = [pc EXCEPT ![j] =
                  IF blob[ModelOf(j)] = None THEN "except" ELSE "dispatch"]
    /\ retry' = [retry EXCEPT ![j] = 0]
    /\ sent' = [sent EXCEPT ![j] = 0]
    /\ UNCHANGED <<jobVars, modelVars, devBattery, redisVars, active,
                   taskCount, roundNum, attempt, waitTime, elapsed, devices, dispatched,
                   allMetrics, collected, pollVars>>
    /\ seenOld' = SeenAfterUpdate(Range(devices[j]))
    /\ UNCHANGED <<hbKey, spc, sweepList>>
    /\ UNCHANGED rpcVars
    /\ UNCHANGED libVars

(* Send start_training to the selection and start waiting.  The commands   *)
(* go to the devices' command queues, which no step of the coordinator     *)
(* reads: the queues are followed in SpecCommands, SpecHeartbeat and       *)
(* SpecDispatch.  DispatchStep is the step without the queues.             *)
DispatchStep(j) ==
    /\ pc[j] = "dispatch"
    /\ LoopTick
    /\ elapsed' = [elapsed EXCEPT ![j] = 0]
    /\ pc' = [pc EXCEPT ![j] = "collect"]
    /\ sent' = [sent EXCEPT ![j] = @ + 1]
    /\ UNCHANGED <<jobVars, modelVars, devVars, redisVars, active, taskCount,
                   roundNum, attempt, waitTime, retry, devices, dispatched, allMetrics,
                   collected, pollVars>>
    /\ UNCHANGED monitorVars
    /\ UNCHANGED libVars

Dispatch(j) ==
    /\ DispatchStep(j)
    /\ UNCHANGED rpcVars

(* Mutant: the loop of _wait_for_gradients tests elapsed <= timeout. *)
wait_continues_late(elapsed_s, timeout, count, expected) ==
    elapsed_s <= timeout /\ count < expected

(* _wait_for_gradients: "while elapsed < timeout" with the llen of the     *)
(* iteration not reaching expected ("if count >= expected: break"): the    *)
(* call sleeps poll_interval and polls again; otherwise it goes on to the  *)
(* lrange and returns.  Submissions only append, so a count that reached   *)
(* expected is still reached at the lrange: the llen and the lrange that   *)
(* follows it are one step.                                                *)
wait_continues(elapsed_s, timeout, count, expected) ==
    elapsed_s < timeout /\ count < expected

(* _wait_for_gradients: one poll, or the final lrange. *)
WaitForGradients(j) ==
    /\ pc[j] = "collect"
    /\ LoopTick
    /\ LET key == bucket[ModelOf(j)][roundNum[j]]
           expected == Len(devices[j])
       IN IF wait_continues(elapsed[j], training_round_timeout_seconds,
                            Len(key), expected)
          THEN /\ elapsed' = [elapsed EXCEPT ![j] = @ + poll_interval]
               /\ UNCHANGED <<pc, collected>>
          ELSE /\ collected' = [collected EXCEPT ![j] = key]
               /\ pc' = [pc EXCEPT ![j] = "collected"]
               /\ elapsed' = [elapsed EXCEPT ![j] = 0]
    /\ UNCHANGED <<jobVars, modelVars, devVars, redisVars, active, taskCount,
                   roundNum, attempt, waitTime, retry, sent, devices, dispatched, allMetrics, pollVars>>
    /\ UNCHANGED monitorVars
    /\ UNCHANGED rpcVars
    /\ UNCHANGED libVars

(* Nothing collected and retries left: clear the bucket, dispatch again. *)
RoundRetry(j) ==
    /\ pc[j] = "collected"
    /\ LoopTick
    /\ collected[j] = <<>>
    /\ retry[j] < max_round_retries
    /\ bucket' = [bucket EXCEPT ![ModelOf(j)][roundNum[j]] = <<>>]
    /\ retry' = [retry EXCEPT ![j] = @ + 1]
    /\ UNCHANGED sent
    /\ pc' = [pc EXCEPT ![j] = "dispatch"]
    /\ UNCHANGED <<jobVars, modelVars, devVars, stopFlag, blob, meta, active,
                   taskCount, roundNum, attempt, waitTime, elapsed, devices, dispatched,
                   allMetrics, collected, pollVars>>
    /\ UNCHANGED monitorVars
    /\ UNCHANGED rpcVars
    /\ UNCHANGED libVars

(* Nothing collected on the last retry: record the round as skipped. *)
RoundSkip(j) ==
    /\ pc[j] = "collected"
    /\ LoopTick
    /\ collected[j] = <<>>
    /\ retry[j] = max_round_retries
    /\ bucket' = [bucket EXCEPT ![ModelOf(j)][roundNum[j]] = <<>>]
    /\ allMetrics' = [allMetrics EXCEPT ![j] =
                          Append(@, RoundRecord(roundNum[j], TRUE))]
    /\ roundMetrics' = [roundMetrics EXCEPT ![j] = allMetrics'[j]]
    /\ retry' = [retry EXCEPT ![j] = 0]
    /\ sent' = [sent EXCEPT ![j] = 0]
    /\ pc' = [pc EXCEPT ![j] = "skip_release"]
    /\ UNCHANGED <<jobStatus, currentRound, minDevices, schedEnabled,
                   modelVars, devVars, stopFlag, blob, meta, active, taskCount,
                   roundNum, attempt, waitTime, elapsed, devices, dispatched, collected, pollVars>>
    /\ UNCHANGED monitorVars
    /\ UNCHANGED rpcVars
    /\ UNCHANGED libVars

(* "if not round_completed": release the devices, next round. *)
SkipRelease(j) ==
    /\ pc[j] = "skip_release"
    /\ LoopTick
    /\ devStatus' = _restore_device_statuses(dispatched[j])
    /\ roundNum' = [roundNum EXCEPT ![j] = @ + 1]
    /\ devices' = [devices EXCEPT ![j] = <<>>]
    /\ pc' = [pc EXCEPT ![j] = "round_begin"]
    /\ UNCHANGED <<jobVars, modelVars, devBattery, redisVars, active,
                   taskCount, attempt, waitTime, retry, sent, elapsed, dispatched, allMetrics,
                   collected, pollVars>>
    /\ seenOld' = SeenAfterUpdate({d \in Range(dispatched[j]) :
                                     devStatus[d] = "training"})
    /\ UNCHANGED <<hbKey, spc, sweepList>>
    /\ UNCHANGED rpcVars
    /\ UNCHANGED libVars

(* "if not gradient_data": delete the bucket and continue with the next    *)
(* round.                                                                  *)
AllInvalid(j) ==
    /\ pc[j] = "collected"
    /\ LoopTick
    /\ collected[j] # <<>>
    /\ gradient_data(collected[j]) = <<>>
    /\ bucket' = [bucket EXCEPT ![ModelOf(j)][roundNum[j]] = <<>>]
    /\ roundNum' = [roundNum EXCEPT ![j] = @ + 1]
    /\ collected' = [collected EXCEPT ![j] = <<>>]
    /\ devices' = [devices EXCEPT ![j] = <<>>]
    /\ retry' = [retry EXCEPT ![j] = 0]
    /\ sent' = [sent EXCEPT ![j] = 0]
    /\ pc' = [pc EXCEPT ![j] = "round_begin"]
    /\ UNCHANGED <<jobVars, modelVars, devVars, stopFlag, blob, meta, active,
                   taskCount, attempt, waitTime, elapsed, dispatched, allMetrics, pollVars>>
    /\ UNCHANGED monitorVars
    /\ UNCHANGED rpcVars
    /\ UNCHANGED libVars

(* Aggregate, apply to the model blob, bump the versions, evaluate, append *)
(* and persist the round record.  deserialize_weight_deltas raises on a    *)
(* malformed payload, base64.b64decode(None) when the blob key is gone.    *)
Aggregate(j) ==
    /\ pc[j] = "collected"
    /\ LoopTick
    /\ gradient_data(collected[j]) # <<>>
    /\ LET m == ModelOf(j)
           raises == "malformed" \in Range(gradient_data(collected[j]))
                     \/ blob[m] = None
       IN IF raises
          THEN /\ pc' = [pc EXCEPT ![j] = "except"]
               /\ UNCHANGED <<blob, meta, modelVersion, allMetrics,
                              roundMetrics>>
          ELSE /\ blob' = [blob EXCEPT ![m] = @ + 1]
               /\ meta' = [meta EXCEPT ![m] =
                              IF @ = None THEN None ELSE roundNum[j]]
               /\ modelVersion' = [modelVersion EXCEPT ![m] = roundNum[j]]
               /\ allMetrics' = [allMetrics EXCEPT ![j] =
                                     Append(@, RoundRecord(roundNum[j], FALSE))]
               /\ roundMetrics' = [roundMetrics EXCEPT ![j] = allMetrics'[j]]
               /\ pc' = [pc EXCEPT ![j] = "round_end"]
    /\ collected' = [collected EXCEPT ![j] = <<>>]
    /\ retry' = [retry EXCEPT ![j] = 0]
    /\ sent' = [sent EXCEPT ![j] = 0]
    /\ UNCHANGED <<jobStatus, currentRound, minDevices, schedEnabled,
                   modelStatus, devVars, stopFlag, bucket, active, taskCount,
                   roundNum, attempt, waitTime, elapsed, devices, dispatched, pollVars>>
    /\ UNCHANGED monitorVars
    /\ UNCHANGED rpcVars
    /\ UNCHANGED libVars

(* End of an aggregated round: release the devices, delete the bucket. *)
RoundEnd(j) ==
    /\ pc[j] = "round_end"
    /\ LoopTick
    /\ devStatus' = _restore_device_statuses(dispatched[j])
    /\ bucket' = [bucket EXCEPT ![ModelOf(j)][roundNum[j]] = <<>>]
    /\ roundNum' = [roundNum EXCEPT ![j] = @ + 1]
    /\ devices' = [devices EXCEPT ![j] = <<>>]
    /\ pc' = [pc EXCEPT ![j] = "round_begin"]
    /\ UNCHANGED <<jobVars, modelVars, devBattery, stopFlag, blob, meta,
                   active, taskCount, attempt, waitTime, retry, sent, elapsed, dispatched,
                   allMetrics, collected, pollVars>>
    /\ seenOld' = SeenAfterUpdate({d \in Range(dispatched[j]) :
                                     devStatus[d] = "training"})
    /\ UNCHANGED <<hbKey, spc, sweepList>>
    /\ UNCHANGED rpcVars
    /\ UNCHANGED libVars

(* "Job complete". *)
Complete(j) ==
    /\ pc[j] = "complete"
    /\ LoopTick
    /\ jobStatus' = [jobStatus EXCEPT ![j] = "completed"]
    /\ roundMetrics' = [roundMetrics EXCEPT ![j] = allMetrics[j]]
    /\ modelStatus' = [modelStatus EXCEPT ![ModelOf(j)] = "trained"]
    /\ pc' = [pc EXCEPT ![j] = "finally"]
    /\ UNCHANGED <<currentRound, minDevices, schedEnabled, modelVersion,
                   devVars, redisVars, active, taskCount, roundNum, attempt, waitTime,
                   retry, sent, elapsed, devices, dispatched, allMetrics, collected, pollVars>>
    /\ UNCHANGED monitorVars
    /\ UNCHANGED rpcVars
    /\ UNCHANGED libVars

(* "except Exception": persist failed. *)
Except(j) ==
    /\ pc[j] = "except"
    /\ LoopTick
    /\ jobStatus' = [jobStatus EXCEPT ![j] = "failed"]
    /\ pc' = [pc EXCEPT ![j] = "cleanup_keep"]
    /\ UNCHANGED <<currentRound, roundMetrics, minDevices, schedEnabled,
                   modelVars, devVars, redisVars, active, taskCount, roundNum,
                   attempt, waitTime, retry, sent, elapsed, devices, dispatched, allMetrics,
                   collected, pollVars>>
    /\ UNCHANGED monitorVars
    /\ UNCHANGED rpcVars
    /\ UNCHANGED libVars

(* _cleanup_redis_keys(job_id, model_id) on the stop paths. *)
CleanupStop(j) ==
    /\ pc[j] = "cleanup_stop"
    /\ LoopTick
    /\ stopFlag' = CleanupStopFlag(j)
    /\ blob' = CleanupBlob(ModelOf(j), FALSE)
    /\ meta' = CleanupMeta(ModelOf(j), FALSE)
    /\ bucket' = CleanupBuckets(ModelOf(j))
    /\ pc' = [pc EXCEPT ![j] = "finally"]
    /\ UNCHANGED <<jobVars, modelVars, devVars, active, taskCount, roundNum,
                   attempt, waitTime, retry, sent, elapsed, devices, dispatched, allMetrics,
                   collected, pollVars>>
    /\ UNCHANGED monitorVars
    /\ UNCHANGED rpcVars
    /\ UNCHANGED libVars

(* _cleanup_redis_keys(job_id, model_id, keep_model=True) on the failure   *)
(* paths.                                                                  *)
CleanupKeep(j) ==
    /\ pc[j] = "cleanup_keep"
    /\ LoopTick
    /\ stopFlag' = CleanupStopFlag(j)
    /\ blob' = CleanupBlob(ModelOf(j), TRUE)
    /\ meta' = CleanupMeta(ModelOf(j), TRUE)
    /\ bucket' = CleanupBuckets(ModelOf(j))
    /\ pc' = [pc EXCEPT ![j] = "finally"]
    /\ UNCHANGED <<jobVars, modelVars, devVars, active, taskCount, roundNum,
                   attempt, waitTime, retry, sent, elapsed, devices, dispatched, allMetrics,
                   collected, pollVars>>
    /\ UNCHANGED monitorVars
    /\ UNCHANGED rpcVars
    /\ UNCHANGED libVars

(* Mutant: the task's entry stays in the active set. *)
active_jobs_kept(job_id) == active

(* "self._active_jobs.discard(job_id)": the active set after the call. *)
active_jobs_discard(job_id) == active \ {job_id}

(* "finally": release dispatched_device_ids, leave the active set. *)
Finally(j) ==
    /\ pc[j] = "finally"
    /\ LoopTick
    /\ devStatus' = _restore_device_statuses(dispatched[j])
    /\ active' = active_jobs_discard(j)
    /\ taskCount' = [taskCount EXCEPT ![j] = @ - 1]
    /\ pc' = [pc EXCEPT ![j] = "idle"]
    /\ roundNum' = [roundNum EXCEPT ![j] = 0]
    /\ devices' = [devices EXCEPT ![j] = <<>>]
    /\ dispatched' = [dispatched EXCEPT ![j] = <<>>]
    /\ allMetrics' = [allMetrics EXCEPT ![j] = <<>>]
    /\ collected' = [collected EXCEPT ![j] = <<>>]
    /\ attempt' = [attempt EXCEPT ![j] = 0]
    /\ waitTime' = [waitTime EXCEPT ![j] = 0]
    /\ UNCHANGED <<jobVars, modelVars, devBattery, redisVars, retry, sent,
                   elapsed, pollVars>>
    /\ seenOld' = SeenAfterUpdate({d \in Range(dispatched[j]) :
                                     devStatus[d] = "training"})
    /\ UNCHANGED <<hbKey, spc, sweepList>>
    /\ UNCHANGED rpcVars
    /\ UNCHANGED libVars

(***************************************************************************)
(* TrainingCoordinator.run: the polling loop.                              *)
(***************************************************************************)

(* The job row as list_all returned it; resume_job reads these fields. *)
JobRow(j) == [id |-> j, current_round |-> currentRound[j],
              round_metrics |-> roundMetrics[j]]

(* TrainingJobRepository.list_all(status): newest job first. *)
list_all_jobs(status) ==
    SeqDesc({j \in DOMAIN jobStatus : jobStatus[j] = status})

(* Mutant: the polling loop resumes a running job whether tracked or not. *)
NotTracked_Always(job_id) == TRUE

(* "if str(job.id) not in self._active_jobs". *)
NotTracked(job_id) == job_id \notin active

(* Once the lists of the last iteration are worked off and               *)
(* asyncio.sleep(5) has returned: list the pending and the running jobs.   *)
PollList ==
    /\ ppc = "poll"
    /\ pendingList = <<>>
    /\ runningList = <<>>
    /\ stale' = 0
    /\ pendingList' = list_all_jobs("pending")
    /\ runningList' = LET ids == list_all_jobs("running")
                      IN [i \in 1..Len(ids) |-> JobRow(ids[i])]
    /\ UNCHANGED <<jobVars, modelVars, devVars, redisVars, loopVars, ppc>>
    /\ UNCHANGED monitorVars
    /\ UNCHANGED rpcVars
    /\ UNCHANGED libVars

(* For a listed pending job: write status running. *)
PollMarkRunning ==
    /\ ppc = "poll"
    /\ pendingList # <<>>
    /\ jobStatus' = [jobStatus EXCEPT ![Head(pendingList)] = "running"]
    /\ ppc' = "start"
    /\ UNCHANGED <<currentRound, roundMetrics, minDevices, schedEnabled,
                   modelVars, devVars, redisVars, loopVars, pendingList,
                   runningList>>
    /\ UNCHANGED stale
    /\ UNCHANGED monitorVars
    /\ UNCHANGED rpcVars
    /\ UNCHANGED libVars

(* start_job for that job. *)
start_job ==
    /\ ppc = "start"
    /\ LET j == Head(pendingList)
       IN /\ blob' = EnsureModelBlob(ModelOf(j))
          /\ meta' = EnsureModelMeta(ModelOf(j))
          /\ CreateTask(j, 1, <<>>)
    /\ pendingList' = Tail(pendingList)
    /\ ppc' = "poll"
    /\ UNCHANGED <<jobVars, modelVars, devVars, stopFlag, bucket, runningList>>
    /\ UNCHANGED stale
    /\ UNCHANGED monitorVars
    /\ UNCHANGED rpcVars
    /\ UNCHANGED libVars

(* For a listed running job: resume_job unless it is tracked. *)
resume_job ==
    /\ ppc = "poll"
    /\ pendingList = <<>>
    /\ runningList # <<>>
    /\ LET job == Head(runningList)
       IN IF NotTracked(job.id)
          THEN /\ blob' = EnsureModelBlob(ModelOf(job.id))
               /\ meta' = EnsureModelMeta(ModelOf(job.id))
               /\ CreateTask(job.id, job.current_round + 1, job.round_metrics)
          ELSE UNCHANGED <<blob, meta, loopVars>>
    /\ runningList' = Tail(runningList)
    /\ UNCHANGED <<jobVars, modelVars, devVars, stopFlag, bucket, ppc,
                   pendingList>>
    /\ stale' = IF Len(runningList) = 1 THEN 0 ELSE stale
    /\ UNCHANGED monitorVars
    /\ UNCHANGED rpcVars
    /\ UNCHANGED libVars

(***************************************************************************)
(* Stop and retry requests (api/routes/training.py, dashboard/router.py).  *)
(***************************************************************************)

(* stop_training_job: a request for a pending or running job is accepted: *)
(* repo.update(job_id, status="stopped"), then                             *)
(* redis.set("training:<job>:stop", "1").  Any other job gets HTTP 400.    *)
stop_training_job(j) ==
    /\ jobStatus[j] \in {"pending", "running"}
    /\ jobStatus' = [jobStatus EXCEPT ![j] = "stopped"]
    /\ stopFlag' = [stopFlag EXCEPT ![j] = TRUE]
    /\ UNCHANGED <<currentRound, roundMetrics, minDevices, schedEnabled,
                   modelVars, devVars, blob, meta, bucket, loopVars, pollVars>>
    /\ UNCHANGED stale
    /\ UNCHANGED monitorVars
    /\ UNCHANGED rpcVars
    /\ UNCHANGED libVars

(* stop_job_action of the dashboard: repo.update(..., status="stopped")    *)
(* without looking at the status, then the same redis.set.                 *)
stop_job_action(j) ==
    /\ jobStatus' = [jobStatus EXCEPT ![j] = "stopped"]
    /\ stopFlag' = [stopFlag EXCEPT ![j] = TRUE]
    /\ UNCHANGED <<currentRound, roundMetrics, minDevices, schedEnabled,
                   modelVars, devVars, blob, meta, bucket, loopVars, pollVars>>
    /\ UNCHANGED stale
    /\ UNCHANGED monitorVars
    /\ UNCHANGED rpcVars
    /\ UNCHANGED libVars

(* The job ids a request can name: those of the jobs and one that names no *)
(* job.                                                                    *)
RequestJobIds == Jobs \cup {Cardinality(Jobs) + 1}

(* Mutant: the retry operation accepts a job whatever its status. *)
retry_response_any(job_id) ==
    IF job_id \notin Jobs THEN [status_code |-> 404]
    ELSE [status_code |-> 200, status |-> "running",
          resume_from_round |-> currentRound[job_id] + 1]

(* retry_training_job: what the handler returns for job_id in this state.  *)
retry_response(job_id) ==
    IF job_id \notin Jobs THEN [status_code |-> 404]
    ELSE IF jobStatus[job_id] # "failed" THEN [status_code |-> 400]
    ELSE [status_code |-> 200, status |-> "running",
          resume_from_round |-> currentRound[job_id] + 1]

(* retry_training_job: an accepted request writes                          *)
(* repo.update(job_id, status="running"); a rejected one writes nothing.   *)
retry_training_job(j) ==
    /\ retry_response(j).status_code = 200
    /\ jobStatus' = [jobStatus EXCEPT ![j] = "running"]
    /\ UNCHANGED <<currentRound, roundMetrics, minDevices, schedEnabled,
                   modelVars, devVars, redisVars, loopVars, pollVars>>
    /\ UNCHANGED stale
    /\ UNCHANGED monitorVars
    /\ UNCHANGED rpcVars
    /\ UNCHANGED libVars

(***************************************************************************)
(* Devices: heartbeats and gradient uploads.                               *)
(***************************************************************************)

(* HeartbeatMonitor.process_heartbeat: the status written to the row. *)
HeartbeatStatus(current) == "online"

(* The body of process_heartbeat: the heartbeat key and the device row. *)
process_heartbeat_body(d, battery_level) ==
    /\ devStatus' = [devStatus EXCEPT ![d] = HeartbeatStatus(@)]
    /\ devBattery' = [devBattery EXCEPT ![d] =
                          IF battery_level # None THEN battery_level ELSE @]
    /\ UNCHANGED <<jobVars, modelVars, redisVars, loopVars, pollVars>>
    /\ UNCHANGED stale
    /\ hbKey' = [hbKey EXCEPT ![d] = TRUE]
    /\ seenOld' = SeenAfterUpdate({d})
    /\ UNCHANGED <<spc, sweepList>>

(* HeartbeatMonitor.process_heartbeat as an operation of its own, called   *)
(* with the parameters it declares.                                        *)
process_heartbeat(d, battery_level) ==
    /\ process_heartbeat_body(d, battery_level)
    /\ UNCHANGED rpcVars
    /\ UNCHANGED libVars

(* The heartbeat key expires timeout_seconds after the last heartbeat. *)
KeyExpires(d) ==
    /\ hbKey[d]
    /\ hbKey' = [hbKey EXCEPT ![d] = FALSE]
    /\ UNCHANGED <<jobVars, modelVars, devVars, redisVars, loopVars, pollVars,
                   stale, seenOld, spc, sweepList>>
    /\ UNCHANGED rpcVars
    /\ UNCHANGED libVars

(* More than timeout_seconds pass since the row was last written; every    *)
(* heartbeat writes the row, so the key has expired by then.               *)
LastSeenAges(d) ==
    /\ ~hbKey[d]
    /\ ~seenOld[d]
    /\ seenOld' = [seenOld EXCEPT ![d] = TRUE]
    /\ UNCHANGED <<jobVars, modelVars, devVars, redisVars, loopVars, pollVars,
                   stale, hbKey, spc, sweepList>>
    /\ UNCHANGED rpcVars
    /\ UNCHANGED libVars

(***************************************************************************)
(* HeartbeatMonitor._check_stale_devices, called by                        *)
(* run_stale_device_checker every heartbeat_interval_seconds.              *)
(***************************************************************************)

(* The device row as the sweep listed it (expire_on_commit is off, so the  *)
(* object keeps the last_seen_at it was loaded with).                      *)
SweepRow(d) == [id |-> d, last_seen_old |-> seenOld[d]]

(* repo.list_all(status="online"). *)
SweepList ==
    /\ spc = "list"
    /\ sweepList' = LET ids == SeqDesc({d \in Devices : devStatus[d] = "online"})
                    IN [i \in 1..Len(ids) |-> SweepRow(ids[i])]
    /\ spc' = IF sweepList' = <<>> THEN "list" ELSE "read"
    /\ UNCHANGED <<jobVars, modelVars, devVars, redisVars, loopVars, pollVars,
                   stale, hbKey, seenOld>>
    /\ UNCHANGED rpcVars
    /\ UNCHANGED libVars

(* For the next listed device: redis.get of its heartbeat key, and the age *)
(* of the listed last_seen_at when the key is gone.                        *)
SweepRead ==
    /\ spc = "read"
    /\ LET device == Head(sweepList)
           last_heartbeat == hbKey[device.id]
       IN IF ~last_heartbeat /\ device.last_seen_old
          THEN /\ spc' = "write"
               /\ UNCHANGED sweepList
          ELSE /\ sweepList' = Tail(sweepList)
               /\ spc' = IF Tail(sweepList) = <<>> THEN "list" ELSE "read"
    /\ UNCHANGED <<jobVars, modelVars, devVars, redisVars, loopVars, pollVars,
                   stale, hbKey, seenOld>>
    /\ UNCHANGED rpcVars
    /\ UNCHANGED libVars

(* repo.update(device.id, status="offline"). *)
SweepWrite ==
    /\ spc = "write"
    /\ LET device == Head(sweepList)
       IN /\ devStatus' = [devStatus EXCEPT ![device.id] = "offline"]
          /\ seenOld' = SeenAfterUpdate({device.id})
    /\ sweepList' = Tail(sweepList)
    /\ spc' = IF Tail(sweepList) = <<>> THEN "list" ELSE "read"
    /\ UNCHANGED <<jobVars, modelVars, devBattery, redisVars, loopVars,
                   pollVars, stale, hbKey>>
    /\ UNCHANGED rpcVars
    /\ UNCHANGED libVars

(* Mutant: the value is pushed at the head of the list. *)
lpush(list, raw) == <<raw>> \o list

(* redis.rpush(key, raw). *)
rpush(list, raw) == Append(list, raw)

(* Each device that was sent start_training uploads once per dispatch,     *)
(* while the round waits.                                                  *)
RoundInProgress(m, r) ==
    \E j \in DOMAIN pc : /\ ModelOf(j) = m
                          /\ roundNum[j] = r
                          /\ pc[j] = "collect"

BucketHasRoom(m, r) ==
    \E j \in DOMAIN pc : /\ ModelOf(j) = m
                          /\ roundNum[j] = r
                          /\ Len(bucket[m][r]) < Len(devices[j])

(* An id or round a request leaves out (the empty value of the field). *)
Unset == 0

(* request.gradients: its length and what it holds: a well-formed layered  *)
(* blob, a blob aggregation cannot read, or a compressed payload (magic    *)
(* byte) that lz4 cannot decompress.                                       *)
GradientPayloads ==
    {[size |-> 0, content |-> "none"], [size |-> 3, content |-> "short"],
     [size |-> 4, content |-> "ok"], [size |-> 4, content |-> "malformed"],
     [size |-> 5, content |-> "corrupt"]}

(* The SubmitGradients requests. *)
GradientRequests ==
    [device_id : Devices \cup {Unset}, model_id : Models \cup {Unset},
     training_round : Rounds \cup {Unset}, num_samples : {-1, 0, 1},
     gradients : GradientPayloads]

(* Mutant: the payload's length is not looked at. *)
SubmitGradients_response_anylen(request) ==
    IF \/ request.device_id = Unset
       \/ request.model_id = Unset
       \/ request.training_round = Unset
    THEN [accepted |-> FALSE, code |-> "INVALID_ARGUMENT"]
    ELSE IF request.gradients.size = 0
    THEN [accepted |-> FALSE, code |-> "INVALID_ARGUMENT"]
    ELSE IF request.num_samples <= 0
    THEN [accepted |-> FALSE, code |-> "INVALID_ARGUMENT"]
    ELSE IF request.gradients.content = "corrupt"
    THEN [accepted |-> FALSE, code |-> "UNKNOWN"]
    ELSE [accepted |-> TRUE, code |-> "OK"]

(* SubmitGradients: what the call returns.  decompress_gradients raising   *)
(* ends the call with an error status and no response message.             *)
SubmitGradients_response(request) ==
    IF \/ request.device_id = Unset
       \/ request.model_id = Unset
       \/ request.training_round = Unset
    THEN [accepted |-> FALSE, code |-> "INVALID_ARGUMENT"]
    ELSE IF request.gradients.size = 0
    THEN [accepted |-> FALSE, code |-> "INVALID_ARGUMENT"]
    ELSE IF request.num_samples <= 0
    THEN [accepted |-> FALSE, code |-> "INVALID_ARGUMENT"]
    ELSE IF request.gradients.size < 4
    THEN [accepted |-> FALSE, code |-> "INVALID_ARGUMENT"]
    ELSE IF request.gradients.content = "corrupt"
    THEN [accepted |-> FALSE, code |-> "UNKNOWN"]
    ELSE [accepted |-> TRUE, code |-> "OK"]

(* The envelope stored: what the decompressed gradients hold. *)
Envelope(request) == request.gradients.content

(* ModelServiceServicer.SubmitGradients: an accepted request pushes one    *)
(* envelope on gradients:<model_id>:<training_round>; any other writes     *)
(* nothing.                                                                *)
SubmitGradients(request) ==
    /\ bucket' = IF SubmitGradients_response(request).accepted
                 THEN [bucket EXCEPT
                          ![request.model_id][request.training_round] =
                              rpush(@, Envelope(request))]
                 ELSE bucket
    /\ UNCHANGED <<jobVars, modelVars, devVars, stopFlag, blob, meta,
                   loopVars, pollVars>>
    /\ UNCHANGED stale
    /\ UNCHANGED monitorVars
    /\ UNCHANGED rpcVars
    /\ UNCHANGED libVars

(* The requests of a device that was sent start_training for round r of   *)
(* model m and that SubmitGradients accepts (a rejected request is a step  *)
(* that changes nothing).                                                  *)
Uploads(m, r) ==
    {request \in GradientRequests :
        /\ request.model_id = m
        /\ request.training_round = r
        /\ SubmitGradients_response(request).accepted}

(* An envelope in the bucket that the coordinator's validation drops       *)
(* (num_samples <= 0 or no gradient bytes): the bucket is a Redis list the *)
(* coordinator reads back and validates, whoever wrote it.                 *)
InvalidEnvelope(m, r) ==
    /\ RoundInProgress(m, r)
    /\ BucketHasRoom(m, r)
    /\ bucket' = [bucket EXCEPT ![m][r] = Append(@, "invalid")]
    /\ UNCHANGED <<jobVars, modelVars, devVars, stopFlag, blob, meta,
                   loopVars, pollVars>>
    /\ UNCHANGED stale
    /\ UNCHANGED monitorVars
    /\ UNCHANGED rpcVars
    /\ UNCHANGED libVars

(***************************************************************************)
(* HeartbeatMonitor: the command queues.                                   *)
(***************************************************************************)

(* json.dumps / json.loads of a command dict. *)
json_dumps(command) == [json |-> command]

json_loads(raw) == raw.json

(* redis.lpop(key): the list that is left. *)
lpop_rest(list) == IF list = <<>> THEN list ELSE Tail(list)

(* get_pending_command: what it returns, <<>> for None and <<command>>     *)
(* otherwise.                                                              *)
get_pending_command_result(device_id) ==
    LET list == cmdQueue[device_id]
    IN IF list # <<>> THEN <<json_loads(Head(list))>> ELSE <<>>

(* queue_command(device_id, command). *)
queue_command(device_id, command) ==
    /\ Len(queued[device_id]) < MaxQueued
    /\ cmdQueue' = [cmdQueue EXCEPT
                        ![device_id] = rpush(@, json_dumps(command))]
    /\ queued' = [queued EXCEPT ![device_id] = Append(@, command)]
    /\ UNCHANGED <<popped, streamVars, orchestratorVars>>
    /\ UNCHANGED libVars

(* get_pending_command(device_id). *)
get_pending_command(device_id) ==
    /\ cmdQueue' = [cmdQueue EXCEPT ![device_id] = lpop_rest(@)]
    /\ popped' = [popped EXCEPT
                      ![device_id] = @ \o get_pending_command_result(device_id)]
    /\ UNCHANGED <<queued, streamVars, orchestratorVars>>
    /\ UNCHANGED libVars

(***************************************************************************)
(* HeartbeatServiceServicer.Heartbeat: one bidirectional stream.           *)
(***************************************************************************)

(* The parameters process_heartbeat declares. *)
process_heartbeat_parameters ==
    {"session", "device_id", "metrics", "battery_level", "battery_state"}

(* The keyword arguments Heartbeat passes to it. *)
Heartbeat_keywords == {"battery_level", "battery_state", "is_low_power_mode"}

(* A call with a keyword the callee does not declare raises TypeError      *)
(* before the callee runs.                                                 *)
RaisesTypeError(keywords, parameters) == ~(keywords \subseteq parameters)

(* cmd_map.get(command.get("type", ""), HEARTBEAT_COMMAND_ACK). *)
cmd_map(command) ==
    IF command.type \in {"update_interval", "start_training", "stop_training",
                         "shutdown"}
    THEN command.type ELSE "ack"

(* The client writes its next request to the stream. *)
ClientSends(d) ==
    /\ streamOpen
    /\ Len(requests) < MaxRequests
    /\ requests' = Append(requests,
                          [device_id |-> d, sequence |-> Len(requests) + 1])
    /\ UNCHANGED <<handled, responses, streamOpen, commandVars,
                   orchestratorVars>>
    /\ UNCHANGED libVars

(* One iteration of "async for request in request_iterator": the call of   *)
(* process_heartbeat, get_pending_command, and the response yielded.  An   *)
(* exception ends the stream.                                              *)
Heartbeat ==
    /\ streamOpen
    /\ handled < Len(requests)
    /\ handled' = handled + 1
    /\ LET request == requests[handled + 1]
           device_id == request.device_id
           command == get_pending_command_result(device_id)
       IN IF RaisesTypeError(Heartbeat_keywords, process_heartbeat_parameters)
          THEN /\ streamOpen' = FALSE
               /\ UNCHANGED <<responses, commandVars, orchestratorVars>>
          ELSE /\ process_heartbeat_body(device_id, devBattery[device_id])
               /\ cmdQueue' = [cmdQueue EXCEPT ![device_id] = lpop_rest(@)]
               /\ popped' = [popped EXCEPT ![device_id] = @ \o command]
               /\ responses' = Append(responses,
                      [ack_sequence |-> request.sequence,
                       command |-> IF command # <<>> THEN cmd_map(command[1])
                                   ELSE "ack"])
               /\ UNCHANGED <<queued, streamOpen>>
    /\ UNCHANGED requests
    /\ UNCHANGED libVars

(***************************************************************************)
(* The gradient wire format (fed_avg.py, gradient_codec.py).  A byte is a  *)
(* number in 0..255 and a bytes value a sequence of bytes.  The float32    *)
(* values of the model are the numbers of F32Values, each with the four    *)
(* bytes numpy gives it.                                                   *)
(***************************************************************************)
LAYER_NAMES ==
    <<"hidden_weight", "hidden_bias", "output_weight", "output_bias">>

(* The layer names of the inputs: two of the default architecture and one  *)
(* of the cifar10 architecture of the registry.                            *)
LayerNameUniverse == {"hidden_bias", "output_bias", "hidden1_bias"}

F32Values == {0, 1, 7}

(* name.encode("utf-8"). *)
utf8(name) ==
    CASE name = "hidden_weight" ->
             <<104, 105, 100, 100, 101, 110, 95, 119, 101, 105, 103, 104, 116>>
      [] name = "hidden_bias" ->
             <<104, 105, 100, 100, 101, 110, 95, 98, 105, 97, 115>>
      [] name = "output_weight" ->
             <<111, 117, 116, 112, 117, 116, 95, 119, 101, 105, 103, 104, 116>>
      [] name = "output_bias" ->
             <<111, 117, 116, 112, 117, 116, 95, 98, 105, 97, 115>>
      [] name = "hidden1_bias" ->
             <<104, 105, 100, 100, 101, 110, 49, 95, 98, 105, 97, 115>>

(* bytes.decode("utf-8"). *)
decode_utf8(bytes) ==
    CHOOSE name \in Range(LAYER_NAMES) \cup LayerNameUniverse :
        utf8(name) = bytes

(* numpy float32 tobytes (little-endian IEEE 754) of one value. *)
tobytes(v) ==
    CASE v = 0 -> <<0, 0, 0, 0>>
      [] v = 1 -> <<0, 0, 128, 63>>
      [] v = 7 -> <<0, 0, 224, 64>>

(* np.frombuffer(dtype=float32) of four bytes. *)
frombuffer(bytes) == CHOOSE v \in F32Values : tobytes(v) = bytes

(* struct.pack("<I", n). *)
pack_I(n) ==
    <<n % 256, (n \div 256) % 256, (n \div 65536) % 256,
      (n \div 16777216) % 256>>

(* struct.unpack_from("<I", data, offset). *)
unpack_from_I(data, offset) ==
    data[offset + 1] + 256 * data[offset + 2] + 65536 * data[offset + 3]
        + 16777216 * data[offset + 4]

(* b"".join(parts). *)
RECURSIVE join(_)
join(parts) == IF parts = <<>> THEN <<>> ELSE Head(parts) \o join(Tail(parts))

(* A dict with no key, and a dict with one key set. *)
EmptyDict == [k \in {} |-> <<>>]

SetItem(dict, key, value) ==
    [k \in DOMAIN dict \cup {key} |-> IF k = key THEN value ELSE dict[k]]

(* layer_names=None. *)
NoLayerNames == <<"None">>

(* The bytes of one layer: name length, name, element count, values. *)
LayerParts(name, values) ==
    pack_I(Len(utf8(name))) \o utf8(name) \o pack_I(Len(values))
        \o join([i \in 1..Len(values) |-> tobytes(values[i])])

(* serialize_weight_deltas(deltas, layer_names). *)
serialize_weight_deltas(deltas, layer_names) ==
    LET order == IF layer_names # NoLayerNames THEN layer_names
                 ELSE LAYER_NAMES
        layers == SelectSeq(order, LAMBDA k : k \in DOMAIN deltas)
    IN pack_I(Len(layers))
           \o join([i \in 1..Len(layers) |->
                        LayerParts(layers[i], deltas[layers[i]])])

(* The loop of deserialize_weight_deltas: layer_count layers from offset. *)
RECURSIVE read_layers(_, _, _, _)
read_layers(data, offset, layer_count, res) ==
    IF layer_count = 0 THEN res
    ELSE LET name_len == unpack_from_I(data, offset)
             name == decode_utf8(SubSeq(data, offset + 5,
                                        offset + 4 + name_len))
             at == offset + 4 + name_len
             elem_count == unpack_from_I(data, at)
             values == [i \in 1..elem_count |->
                           frombuffer(SubSeq(data, at + 4 * i + 1,
                                             at + 4 * i + 4))]
         IN read_layers(data, at + 4 + 4 * elem_count, layer_count - 1,
                        SetItem(res, name, values))

(* deserialize_weight_deltas(data). *)
deserialize_weight_deltas(data) ==
    read_layers(data, 4, unpack_from_I(data, 0), EmptyDict)

(* gradient_codec.MAGIC. *)
MAGIC == 1

(* lz4.block.decompress followed by _dequantize_f16_to_f32, for a payload  *)
(* that was never compressed.  The library is not part of the repository:  *)
(* it raises LZ4BlockError when the bytes are no valid block (a match      *)
(* offset that points before the output, as the bytes of a layer name      *)
(* give), or it returns the bytes it decoded, which the dequantizer walks  *)
(* as a float16 blob; the blob of zero layers stands for that outcome.     *)
Lz4Outcomes(payload, original_size) ==
    {[raised |-> TRUE, data |-> <<>>], [raised |-> FALSE, data |-> pack_I(0)]}

(* decompress_gradients(data): the results it can have. *)
decompress_gradients(data) ==
    IF Len(data) < 1 \/ data[1] # MAGIC
    THEN {[raised |-> FALSE, data |-> data]}
    ELSE Lz4Outcomes(SubSeq(data, 6, Len(data)), unpack_from_I(data, 1))

(* The sequences over S of at most n elements. *)
SeqsUpTo(S, n) == UNION {[1..k -> S] : k \in 0..n}

(* The layers of the inputs, and the well-formed float32 layered blobs. *)
Layers ==
    [name : LayerNameUniverse, values : SeqsUpTo(F32Values, MaxElems)]

LayeredBlobs ==
    {pack_I(Len(layers))
         \o join([i \in 1..Len(layers) |->
                      LayerParts(layers[i].name, layers[i].values)]) :
       layers \in SeqsUpTo(Layers, MaxLayers)}

(* The delta maps of the inputs: layer names to float32 vectors. *)
DeltaMaps ==
    UNION {[names -> SeqsUpTo(F32Values, MaxElems)] :
               names \in {S \in SUBSET LayerNameUniverse :
                              Cardinality(S) <= MaxLayers}}

(* A call returns. *)
Returns(value) ==
    /\ result = NoCall
    /\ result' = value
    /\ UNCHANGED <<call, modelRows, orchestratorVars, rpcVars>>

(* decompress_gradients(call.data). *)
CallDecompress ==
    /\ call.fn = "decompress_gradients"
    /\ \E outcome \in decompress_gradients(call.data) : Returns(outcome)

(* deserialize_weight_deltas(serialize_weight_deltas(call.deltas)). *)
CallRoundTrip ==
    /\ call.fn = "serialize_weight_deltas"
    /\ Returns(deserialize_weight_deltas(
                   serialize_weight_deltas(call.deltas, NoLayerNames)))

(***************************************************************************)
(* float32 arithmetic (numpy).  A float32 value is m * 2^-k with m below   *)
(* 2^MantissaBits, written with m odd or k = 0; the values of the model    *)
(* are not negative and stay far inside the exponent range.                *)
(***************************************************************************)
MantissaBits == 24

RECURSIVE Pow2(_)
Pow2(n) == IF n = 0 THEN 1 ELSE 2 * Pow2(n - 1)

RECURSIVE Normal(_, _)
Normal(m, k) ==
    IF k > 0 /\ m % 2 = 0 THEN Normal(m \div 2, k - 1)
    ELSE [m |-> m, k |-> k]

(* n / d rounded to the nearest integer, ties to even. *)
RoundHalfEven(n, d) ==
    LET q == n \div d
        r == n % d
    IN IF 2 * r > d \/ (2 * r = d /\ q % 2 = 1) THEN q + 1 ELSE q

(* The least number that needs more bits than the mantissa has, and the   *)
(* least that needs them all.                                              *)
MantissaLimit == Pow2(MantissaBits)

MantissaHalf == Pow2(MantissaBits - 1)

(* The bits n has beyond the mantissa. *)
RECURSIVE Excess(_)
Excess(n) == IF n < MantissaLimit THEN 0 ELSE 1 + Excess(n \div 2)

(* The float32 nearest to n * 2^-k. *)
float32(n, k) ==
    LET s == Excess(n) IN Normal(RoundHalfEven(n, Pow2(s)), k - s)

(* The least k', from k with n = a * 2^k, at which a * 2^k' / b has a     *)
(* full mantissa.                                                          *)
RECURSIVE Scale(_, _, _)
Scale(n, b, k) ==
    IF n \div b >= MantissaHalf THEN k ELSE Scale(2 * n, b, k + 1)

(* The Python float a / b as numpy takes it into a float32 product.  For   *)
(* the small a and b of the model the double a / b and the quotient round  *)
(* to the same float32.                                                    *)
float32_quotient(a, b) ==
    IF a = 0 THEN Normal(0, 0)
    ELSE LET k == Scale(a, b, 0)
         IN Normal(RoundHalfEven(a * Pow2(k), b), k)

(* x * y and x + y of float32 operands. *)
multiply(x, y) == float32(x.m * y.m, x.k + y.k)

add(x, y) ==
    LET k == IF x.k > y.k THEN x.k ELSE y.k
    IN float32(x.m * Pow2(k - x.k) + y.m * Pow2(k - y.k), k)

(* A float32 vector read from a blob, as a numpy array. *)
ndarray(values) == [i \in 1..Len(values) |-> Normal(values[i], 0)]

(* sum(n for _, n in gradients). *)
RECURSIVE total_of(_)
total_of(gradients) ==
    IF gradients = <<>> THEN 0
    ELSE Head(gradients)[2] + total_of(Tail(gradients))

(* The loop of aggregate_gradients over the submissions. *)
RECURSIVE accumulate(_, _, _)
accumulate(gradients, total_samples, accumulated) ==
    IF gradients = <<>> THEN accumulated
    ELSE LET deltas == deserialize_weight_deltas(Head(gradients)[1])
             weight == float32_quotient(Head(gradients)[2], total_samples)
             scaled(name) ==
                 [i \in 1..Len(deltas[name]) |->
                      multiply(ndarray(deltas[name])[i], weight)]
         IN accumulate(Tail(gradients), total_samples,
                [name \in DOMAIN accumulated \cup DOMAIN deltas |->
                     IF name \notin DOMAIN deltas THEN accumulated[name]
                     ELSE IF name \in DOMAIN accumulated
                     THEN [i \in 1..Len(accumulated[name]) |->
                               add(accumulated[name][i], scaled(name)[i])]
                     ELSE scaled(name)])

(* The mean of the submissions with every count taken as 1. *)
aggregate_gradients_unweighted(gradients) ==
    IF total_of(gradients) = 0 THEN EmptyDict
    ELSE accumulate([i \in 1..Len(gradients) |-> <<gradients[i][1], 1>>],
                    Len(gradients), EmptyDict)

(* aggregate_gradients(gradients): gradients are pairs <<bytes, count>>. *)
aggregate_gradients(gradients) ==
    LET total_samples == total_of(gradients)
    IN IF total_samples = 0 THEN EmptyDict
       ELSE accumulate(gradients, total_samples, EmptyDict)

(* Only the layers that have a delta are returned. *)
apply_gradients_updated_only(weights, grads) ==
    [name \in DOMAIN weights \cap DOMAIN grads |->
         [i \in 1..Len(weights[name]) |->
              add(weights[name][i], grads[name][i])]]

(* apply_gradients(weights, grads): vectors of one shape per layer. *)
apply_gradients(weights, grads) ==
    [name \in DOMAIN weights |->
         IF name \in DOMAIN grads
         THEN [i \in 1..Len(weights[name]) |->
                   add(weights[name][i], grads[name][i])]
         ELSE weights[name]]

(* The inputs of the averager: maps of one-element vectors over two layer  *)
(* names, and their blobs paired with a sample count.                      *)
AveragedNames == {"hidden_bias", "output_bias"}

GradientValues == F32Values \ {0}

SampleCounts == {0, 1, 2}

UnitDeltaMaps ==
    UNION {[names -> {<<v>> : v \in GradientValues}] :
               names \in SUBSET AveragedNames}

Submissions ==
    {<<serialize_weight_deltas(deltas, NoLayerNames), n>> :
         deltas \in UnitDeltaMaps, n \in SampleCounts}

(* The weight maps and averaged delta maps given to apply_gradients. *)
WeightMaps ==
    UNION {[names -> {ndarray(<<v>>) : v \in F32Values}] :
               names \in SUBSET LayerNameUniverse}

(* aggregate_gradients(call.gradients). *)
CallAggregate ==
    /\ call.fn = "aggregate_gradients"
    /\ Returns(aggregate_gradients(call.gradients))

(* apply_gradients(call.weights, call.grads). *)
CallApply ==
    /\ call.fn = "apply_gradients"
    /\ Returns(apply_gradients(call.weights, call.grads))

(***************************************************************************)
(* The inputs of the device scheduler.  Metrics are percentages, as in     *)
(* the thresholds above; weights are the percentages of _DEFAULT_WEIGHTS.  *)
(***************************************************************************)
Profile(battery_level, battery_state, is_low_power_mode, thermal_pressure,
        cpu_usage, memory_usage, neural_engine_cores, memory_bytes) ==
    [id |-> 0, battery_level |-> battery_level, battery_state |-> battery_state,
     is_low_power_mode |-> is_low_power_mode,
     thermal_pressure |-> thermal_pressure, cpu_usage |-> cpu_usage,
     memory_usage |-> memory_usage,
     neural_engine_cores |-> neural_engine_cores,
     memory_bytes |-> memory_bytes]

(* The devices of the pools: no metrics; charging with metrics; a battery  *)
(* below min_battery; the largest hardware; no battery level.              *)
PoolProfiles ==
    {Profile(50, "unknown", FALSE, None, None, None, 0, 0),
     Profile(90, "charging", FALSE, 60, 60, 60, 8, 4),
     Profile(10, "unknown", FALSE, None, None, None, 16, 8),
     Profile(50, "unknown", FALSE, 60, 60, 30, 16, 8),
     Profile(None, "full", FALSE, 30, None, None, 8, 0)}

(* The devices of the eligibility checks: every combination of a missing   *)
(* value, a value at the threshold and a value beyond it.                  *)
ThresholdProfiles ==
    {Profile(b, "unknown", l, t, c, None, 0, 0) :
         b \in {None, LowBattery, min_battery, HighBattery}, l \in BOOLEAN,
         t \in {None, max_thermal_pressure, max_thermal_pressure + 1},
         c \in {None, max_cpu_usage, max_cpu_usage + 1}}

(* A list of device rows: the i-th row has id i. *)
Rows(profiles) == [i \in 1..Len(profiles) |-> [profiles[i] EXCEPT !.id = i]]

(* The weights of the configurations: the default ones, the hardware only, *)
(* and none at all.                                                        *)
WeightChoices ==
    {_DEFAULT_WEIGHTS,
     [battery |-> 0, thermal |-> 0, cpu_load |-> 0, memory_load |-> 0,
      hardware |-> 100],
     [battery |-> 0, thermal |-> 0, cpu_load |-> 0, memory_load |-> 0,
      hardware |-> 0]}

PoolConfigs ==
    {SchedulerConfig(FALSE)}
        \cup {[SchedulerConfig(TRUE) EXCEPT !.target_devices = t,
                                            !.weights = w] :
                  t \in {None, 0, 1}, w \in WeightChoices}

ThresholdConfigs ==
    {[SchedulerConfig(e) EXCEPT !.allow_low_power_mode = a] :
         e \in BOOLEAN, a \in BOOLEAN}

(* The devices that select_devices gives to _score_device. *)
scored_devices(devs, cfg, min_devices) ==
    LET eligible == SelectSeq(devs, LAMBDA d : _is_eligible(d, cfg))
    IN IF ~cfg.enabled \/ Len(eligible) < min_devices THEN {}
       ELSE Range(eligible)

(* select_devices(call.devices, call.cfg, call.min_devices). *)
CallSelect ==
    /\ call.fn = "select_devices"
    /\ Returns(select_devices(call.devices, call.cfg, call.min_devices))

(***************************************************************************)
(* DELETE /api/v1/models/{model_id} (api/routes/models.py).                *)
(***************************************************************************)
(* The model ids of the requests: the rows and an id that has no row. *)
RequestModelIds == Models \cup {0}

(* ModelRepository.delete on an existing row: session.delete and commit.   *)
(* training_jobs.model_id is a foreign key on models.id without ON DELETE: *)
(* a database that enforces it (PostgreSQL, the configured one) fails the  *)
(* commit with IntegrityError while a job row references the model; one    *)
(* that does not (the SQLite engine of the tests) deletes the row.         *)
ModelRepository_delete(m) ==
    IF \E j \in Jobs : ModelOf(j) = m
    THEN {"IntegrityError", "deleted"}
    ELSE {"deleted"}

(* The handler: 404 without a row, 400 for a model whose status is         *)
(* "training", otherwise the delete; an IntegrityError is not caught and   *)
(* ends the request with status 500.                                       *)
delete_model(m) ==
    /\ result = NoCall
    /\ call' = [fn |-> "delete_model", model_id |-> m]
    /\ IF m \notin modelRows
       THEN /\ result' = [status_code |-> 404]
            /\ UNCHANGED modelRows
       ELSE IF modelStatus[m] = "training"
       THEN /\ result' = [status_code |-> 400]
            /\ UNCHANGED modelRows
       ELSE \E outcome \in ModelRepository_delete(m) :
                IF outcome = "deleted"
                THEN /\ modelRows' = modelRows \ {m}
                     /\ result' = [status_code |-> 200]
                ELSE /\ result' = [status_code |-> 500]
                     /\ UNCHANGED modelRows
    /\ UNCHANGED <<orchestratorVars, rpcVars>>

(***************************************************************************)
(* Specification.                                                          *)
(***************************************************************************)
LoopStep(j) ==
    \/ RoundBegin(j) \/ DeviceWait(j) \/ DeviceWaitExhausted(j)
    \/ Reserve(j) \/ Dispatch(j) \/ WaitForGradients(j)
    \/ RoundRetry(j) \/ RoundSkip(j) \/ SkipRelease(j)
    \/ AllInvalid(j) \/ Aggregate(j) \/ RoundEnd(j)
    \/ Complete(j) \/ Except(j) \/ CleanupStop(j) \/ CleanupKeep(j)
    \/ Finally(j)

PollStep ==
    PollList \/ PollMarkRunning \/ start_job \/ resume_job

Next ==
    \/ \E j \in Jobs : RoundBegin(j)
    \/ \E j \in Jobs : DeviceWait(j)
    \/ \E j \in Jobs : DeviceWaitExhausted(j)
    \/ \E j \in Jobs : Reserve(j)
    \/ \E j \in Jobs : Dispatch(j)
    \/ \E j \in Jobs : WaitForGradients(j)
    \/ \E j \in Jobs : RoundRetry(j)
    \/ \E j \in Jobs : RoundSkip(j)
    \/ \E j \in Jobs : SkipRelease(j)
    \/ \E j \in Jobs : AllInvalid(j)
    \/ \E j \in Jobs : Aggregate(j)
    \/ \E j \in Jobs : RoundEnd(j)
    \/ \E j \in Jobs : Complete(j)
    \/ \E j \in Jobs : Except(j)
    \/ \E j \in Jobs : CleanupStop(j)
    \/ \E j \in Jobs : CleanupKeep(j)
    \/ \E j \in Jobs : Finally(j)
    \/ PollList
    \/ PollMarkRunning
    \/ start_job
    \/ resume_job
    \/ \E j \in Jobs : stop_training_job(j)
    \/ \E j \in Jobs : stop_job_action(j)
    \/ \E j \in RequestJobIds : retry_training_job(j)
    \/ \E d \in Devices : \E b \in {BatteryOf(d), None} : process_heartbeat(d, b)
    \/ \E m \in Models, r \in Rounds :
           /\ RoundInProgress(m, r)
           /\ BucketHasRoom(m, r)
           /\ \E request \in Uploads(m, r) : SubmitGradients(request)
    \/ \E m \in Models, r \in Rounds : InvalidEnvelope(m, r)

Spec == Init /\ [][Next]_vars

(* In Spec every online device keeps sending heartbeats, so its heartbeat  *)
(* key never expires and the stale-device sweep finds nothing to write.    *)
(* SpecSweep adds the passing of time without heartbeats and the sweep.    *)
SweepStep == SweepList \/ SweepRead \/ SweepWrite

NextSweep ==
    \/ Next
    \/ \E d \in Devices : KeyExpires(d)
    \/ \E d \in Devices : LastSeenAges(d)
    \/ SweepList
    \/ SweepRead
    \/ SweepWrite

SpecSweep == Init /\ [][NextSweep]_vars

(* The command queues under any interleaving of their two operations, for  *)
(* any device id and command.                                              *)
NextCommands ==
    \/ \E d \in CommandDeviceIds, c \in Commands : queue_command(d, c)
    \/ \E d \in CommandDeviceIds : get_pending_command(d)

SpecCommands == Init /\ [][NextCommands]_vars

(* One heartbeat stream, with commands being queued for the devices        *)
(* meanwhile.                                                              *)
NextHeartbeat ==
    \/ \E d \in CommandDeviceIds, c \in Commands : queue_command(d, c)
    \/ \E d \in Devices : ClientSends(d)
    \/ Heartbeat

SpecHeartbeat == Init /\ [][NextHeartbeat]_vars

(* The number of envelopes in the buckets of rounds 1..r. *)
RECURSIVE Stored(_)
Stored(r) ==
    IF r = 0 THEN 0
    ELSE Stored(r - 1) + Len(bucket[CHOOSE m \in Models : TRUE][r])

(* SubmitGradients called with any request at any time, whatever the       *)
(* coordinator is doing.                                                   *)
NextSubmit ==
    /\ Stored(NumRounds) < MaxStored
    /\ \E request \in GradientRequests : SubmitGradients(request)

SpecSubmit == Init /\ [][NextSubmit]_vars

(* The codec functions applied to one input each. *)
InitCodec ==
    /\ InitStores
    /\ call \in {[fn |-> "decompress_gradients", data |-> x] :
                     x \in LayeredBlobs}
               \cup {[fn |-> "serialize_weight_deltas", deltas |-> x] :
                         x \in DeltaMaps}
    /\ result = NoCall

NextCodec == CallDecompress \/ CallRoundTrip

SpecCodec == InitCodec /\ [][NextCodec]_vars

(* The averager functions applied to one input each. *)
InitFedAvg ==
    /\ InitStores
    /\ call \in {[fn |-> "aggregate_gradients", gradients |-> x] :
                     x \in SeqsUpTo(Submissions, MaxSubmissions)}
               \cup {[fn |-> "apply_gradients", weights |-> x, grads |-> y] :
                         x \in WeightMaps, y \in WeightMaps}
    /\ result = NoCall

NextFedAvg == CallAggregate \/ CallApply

SpecFedAvg == InitFedAvg /\ [][NextFedAvg]_vars

(* select_devices applied to one pool, configuration and min_devices. *)
InitScheduler ==
    /\ InitStores
    /\ call \in {[fn |-> "select_devices", devices |-> Rows(x), cfg |-> c,
                  min_devices |-> n] :
                     x \in SeqsUpTo(PoolProfiles, MaxPool), c \in PoolConfigs,
                     n \in 0..2}
               \cup {[fn |-> "select_devices", devices |-> Rows(<<x>>),
                      cfg |-> c, min_devices |-> n] :
                         x \in ThresholdProfiles, c \in ThresholdConfigs,
                         n \in 0..1}
    /\ result = NoCall

NextScheduler == CallSelect

SpecScheduler == InitScheduler /\ [][NextScheduler]_vars

(* The orchestrator until one delete-model request has been served. *)
NextModels ==
    \/ result = NoCall /\ Next
    \/ \E m \in RequestModelIds : delete_model(m)

SpecModels == Init /\ [][NextModels]_vars

(* The same system when nobody uses the dashboard's stop button: every     *)
(* stop flag is then one the stop API has set.                             *)
NextApi ==
    \/ \E j \in Jobs : LoopStep(j)
    \/ PollStep
    \/ \E j \in Jobs : stop_training_job(j)
    \/ \E j \in RequestJobIds : retry_training_job(j)
    \/ \E d \in Devices : \E b \in {BatteryOf(d), None} : process_heartbeat(d, b)
    \/ \E m \in Models, r \in Rounds :
           /\ RoundInProgress(m, r)
           /\ BucketHasRoom(m, r)
           /\ \E request \in Uploads(m, r) : SubmitGradients(request)
    \/ \E m \in Models, r \in Rounds : InvalidEnvelope(m, r)

(* The polling loop and every training-loop task are asyncio tasks of one  *)
(* event loop: each takes its next step once its await returns.            *)
FairSpecApi ==
    /\ Init /\ [][NextApi]_vars
    /\ WF_vars(PollStep)
    /\ \A j \in Jobs : WF_vars(LoopStep(j))

(***************************************************************************)
(* Properties.                                                             *)
(***************************************************************************)
Release(j) == SkipRelease(j) \/ RoundEnd(j) \/ Finally(j)

(* C1: a heartbeat leaves a device that is "training" in "training"; the   *)
(* only steps that take a device from "training" to "online" are the       *)
(* coordinator's releases.                                                 *)
C1_HeartbeatNonRegression ==
    [][\A d \in Devices :
          (devStatus[d] = "training" /\ devStatus'[d] = "online")
              => \E j \in Jobs : Release(j)]_vars

C3_TerminalSticky ==
    [][\A j \in Jobs :
          (jobStatus[j] \in Terminal /\ jobStatus'[j] # jobStatus[j])
              => (jobStatus[j] = "failed" /\ retry_training_job(j))]_vars

(* C4: the durable current_round is the highest round that has a record in *)
(* the durable round_metrics.rounds, 0 when there is none.                 *)
HighestRecorded(records) ==
    IF records = <<>> THEN 0
    ELSE CHOOSE r \in {records[i].round : i \in 1..Len(records)} :
            \A i \in 1..Len(records) : records[i].round <= r

C4_Checkpoint ==
    \A j \in Jobs : currentRound[j] = HighestRecorded(roundMetrics[j])

(* C5: when a training loop moves on from round r to round r+1, a record   *)
(* of round r is in the durable round_metrics.rounds, whatever the outcome *)
(* of round r was.                                                         *)
HasRecord(records, r) == \E i \in 1..Len(records) : records[i].round = r

FailedInRound(job) ==
    /\ jobStatus[job.id] = "running"
    /\ JobRow(job.id) = job
    /\ job.current_round >= 1
    /\ Len(job.round_metrics) = job.current_round - 1
    /\ ~stopFlag[job.id]

C6_ResumeFailedRound ==
    [][(resume_job /\ NotTracked(Head(runningList).id)
          /\ FailedInRound(Head(runningList)))
          => roundNum'[Head(runningList).id]
                 = Head(runningList).current_round]_vars

(* C7: the selection that is reserved and sent start_training has at least *)
(* min_devices members.                                                    *)
C7_MinDevices ==
    \A j \in Jobs :
        pc[j] \in {"reserve", "dispatch", "collect"}
            => Len(devices[j]) >= minDevices[j]

(* C8 (as stated): observing the stop flag persists "stopped"; the cleanup *)
(* deletes the stop flag and the gradient buckets and leaves the model     *)
(* blob and meta in place.                                                 *)
StopObserved(j) ==
    /\ pc[j] = "round_begin" /\ roundNum[j] <= NumRounds /\ stopFlag[j]
    /\ pc'[j] # pc[j]

StopCleanupDone(j) == pc[j] = "cleanup_stop" /\ pc'[j] = "finally"

C8_StopKeepsModel ==
    [][\A j \in Jobs :
          /\ StopObserved(j)
                => (jobStatus'[j] = "stopped" /\ pc'[j] = "cleanup_stop")
          /\ StopCleanupDone(j)
                => /\ ~stopFlag'[j]
                   /\ \A r \in Rounds : bucket'[ModelOf(j)][r] = <<>>
                   /\ blob'[ModelOf(j)] # None
                   /\ meta'[ModelOf(j)] # None]_vars

(* C8 (amended): observing the stop flag persists "stopped"; the cleanup   *)
(* deletes the stop flag, the gradient buckets and also the model blob and *)
(* meta.                                                                   *)
C8_StopDeletesModel ==
    [][\A j \in Jobs :
          /\ StopObserved(j)
                => (jobStatus'[j] = "stopped" /\ pc'[j] = "cleanup_stop")
          /\ StopCleanupDone(j)
                => /\ ~stopFlag'[j]
                   /\ \A r \in Rounds : bucket'[ModelOf(j)][r] = <<>>
                   /\ blob'[ModelOf(j)] = None
                   /\ meta'[ModelOf(j)] = None]_vars

(* The stop was observed at the boundary of a round after the first, and   *)
(* the cleanup has run.                                                    *)
C8_Witness ==
    \E j \in Jobs :
        /\ pc[j] = "finally" /\ jobStatus[j] = "stopped"
        /\ roundNum[j] >= 2 /\ currentRound[j] = roundNum[j] - 1
        /\ roundMetrics[j] # <<>>
        /\ ~stopFlag[j] /\ blob[ModelOf(j)] = None

(* C9: once the stop API has accepted a request for a job and set the stop *)
(* flag, no round of that job begins while the flag is set, the job's      *)
(* status is eventually stopped for good, and the stop flag is eventually  *)
(* deleted for good.                                                       *)
RoundBegins(j) == pc[j] = "round_begin" /\ pc'[j] = "device_wait"

C9_StopHonoured ==
    /\ [][\A j \in Jobs : stopFlag[j] => ~RoundBegins(j)]_vars
    /\ \A j \in Jobs :
          [](stopFlag[j] => <>[](jobStatus[j] = "stopped" /\ ~stopFlag[j]))

(* C10: a job never has two training-loop tasks, and it is in the active   *)
(* set exactly while it has one.                                           *)
C10_SingleLoop ==
    \A j \in Jobs :
        /\ taskCount[j] <= 1
        /\ (j \in active) <=> (taskCount[j] = 1)

(* The polling loop is looking at a listed running job that is tracked. *)
C10_Witness ==
    /\ ppc = "poll" /\ pendingList = <<>> /\ runningList # <<>>
    /\ Head(runningList).id \in active
    /\ taskCount[Head(runningList).id] = 1

(* C11: the sweep's write never lands on a device that is "training" when  *)
(* the write is made, however the sweep pass interleaves with the          *)
(* coordinator's reserve.                                                  *)
C11_SweepSparesTraining ==
    [][\A d \in Devices :
          (devStatus[d] = "training" /\ devStatus'[d] = "offline")
              => ~SweepWrite]_vars

(* C12: the device wait gives up only after max_device_wait_retries (30)   *)
(* absent selections; it then persists "failed" with no selection held for *)
(* the round and the model blob and meta in the store, the cleanup that    *)
(* follows leaves both as they are, and the task ends.  The sleep after    *)
(* the 0-based attempt k is 10, 20, 40, 80 seconds and 120 from k = 4 on.  *)
Backoff(k) == IF k < 4 THEN <<10, 20, 40, 80>>[k + 1] ELSE 120

AfterExhaustion(j) == attempt[j] = max_device_wait_retries /\ pc[j] # "device_wait"

C12_DeviceWaitExhaustion ==
    [][\A j \in Jobs :
          /\ (pc[j] = "device_wait" /\ attempt'[j] = attempt[j] + 1)
                => (waitTime'[j] = Backoff(attempt[j]) /\ pc'[j] = "device_wait")
          /\ (pc[j] = "device_wait" /\ pc'[j] = "cleanup_keep")
                => /\ attempt[j] = 30
                   /\ jobStatus'[j] = "failed"
                   /\ devices[j] = <<>>
                   /\ blob[ModelOf(j)] # None /\ meta[ModelOf(j)] # None
          /\ (AfterExhaustion(j) /\ pc[j] = "cleanup_keep" /\ pc'[j] # pc[j])
                => /\ blob'[ModelOf(j)] = blob[ModelOf(j)]
                   /\ meta'[ModelOf(j)] = meta[ModelOf(j)]
                   /\ blob'[ModelOf(j)] # None
                   /\ pc'[j] = "finally"
          /\ (AfterExhaustion(j) /\ pc[j] = "finally" /\ pc'[j] # pc[j])
                => (pc'[j] = "idle" /\ j \notin active')]_vars

(* The wait was exhausted, the job is failed, the model is still there and *)
(* the task is about to end.                                               *)
C12_Witness ==
    \E j \in Jobs :
        /\ AfterExhaustion(j) /\ pc[j] = "finally"
        /\ waitTime[j] = 120
        /\ jobStatus[j] = "failed"
        /\ blob[ModelOf(j)] # None /\ meta[ModelOf(j)] # None

(* C13: an exception raised by a step of the training loop is followed by  *)
(* the write of status "failed"; the cleanup that follows deletes the stop *)
(* flag and every gradient bucket of the model and leaves the model blob   *)
(* and meta as they are; only then the task ends.                          *)
C13_ExceptionPath ==
    [][\A j \in Jobs :
          /\ (pc[j] = "except" /\ pc'[j] # pc[j])
                => (jobStatus'[j] = "failed" /\ pc'[j] = "cleanup_keep")
          /\ (~AfterExhaustion(j) /\ pc[j] = "cleanup_keep" /\ pc'[j] # pc[j])
                => /\ ~stopFlag'[j]
                   /\ \A r \in Rounds : bucket'[ModelOf(j)][r] = <<>>
                   /\ blob'[ModelOf(j)] = blob[ModelOf(j)]
                   /\ meta'[ModelOf(j)] = meta[ModelOf(j)]
                   /\ pc'[j] = "finally"
          /\ (pc[j] \in {"except", "cleanup_keep"} /\ pc'[j] # pc[j])
                => (j \in active' /\ taskCount'[j] = taskCount[j])]_vars

(* The loop raised in round 2 (a malformed upload, say); the cleanup has   *)
(* run and the model that round 1 produced is still in the store.          *)
C13_Witness ==
    \E j \in Jobs :
        /\ pc[j] = "finally" /\ ~AfterExhaustion(j)
        /\ jobStatus[j] = "failed"
        /\ roundNum[j] = 2 /\ roundMetrics[j] # <<>>
        /\ ~stopFlag[j]
        /\ \A r \in Rounds : bucket[ModelOf(j)][r] = <<>>
        /\ blob[ModelOf(j)] = 1 /\ meta[ModelOf(j)] = 1

(* C14: a round whose collections all come back empty is dispatched and    *)
(* collected exactly 3 times, the bucket is cleared between the attempts;  *)
(* then exactly one skipped record of the round is appended and persisted, *)
(* the job's status is left alone, the reserved devices are released and   *)
(* the loop goes on to the next round.                                     *)
EmptyCollection(j) == pc[j] = "collected" /\ collected[j] = <<>> /\ pc'[j] # pc[j]

C14_EmptyRound ==
    [][\A j \in Jobs :
          /\ (pc[j] = "dispatch" /\ pc'[j] # pc[j])
                => (sent'[j] = sent[j] + 1 /\ pc'[j] = "collect")
          /\ (EmptyCollection(j) /\ sent[j] < 3)
                => /\ pc'[j] = "dispatch"
                   /\ bucket'[ModelOf(j)][roundNum[j]] = <<>>
                   /\ roundMetrics'[j] = roundMetrics[j]
                   /\ roundNum'[j] = roundNum[j]
          /\ (EmptyCollection(j) /\ sent[j] >= 3)
                => /\ sent[j] = 3
                   /\ pc'[j] = "skip_release"
                   /\ bucket'[ModelOf(j)][roundNum[j]] = <<>>
                   /\ allMetrics'[j] = Append(allMetrics[j],
                                          [round |-> roundNum[j], skipped |-> TRUE])
                   /\ roundMetrics'[j] = allMetrics'[j]
                   /\ jobStatus'[j] = jobStatus[j]
          /\ (pc[j] = "skip_release" /\ pc'[j] # pc[j])
                => /\ \A d \in Range(dispatched[j]) : devStatus'[d] # "training"
                   /\ roundNum'[j] = roundNum[j] + 1
                   /\ pc'[j] = "round_begin"
                   /\ jobStatus'[j] = jobStatus[j]]_vars

(* Round 1 was skipped after its third empty collection: its device is     *)
(* released, the record is persisted and round 2 is about to begin.        *)
C14_Witness ==
    \E j \in Jobs :
        /\ pc[j] = "round_begin" /\ roundNum[j] = 2
        /\ jobStatus[j] = "running"
        /\ roundMetrics[j] = <<[round |-> 1, skipped |-> TRUE]>>
        /\ dispatched[j] # <<>>
        /\ \A d \in Range(dispatched[j]) : devStatus[d] = "online"

(* C15: when the collected bucket is non-empty and no submission in it     *)
(* passes validation, the step that follows leaves a skipped record of the *)
(* round in the durable round_metrics.rounds, the model blob as it is and  *)
(* the job not failed.                                                     *)
AllSubmissionsInvalid(j) ==
    /\ pc[j] = "collected"
    /\ collected[j] # <<>>
    /\ gradient_data(collected[j]) = <<>>

HasSkippedRecord(records, r) ==
    \E i \in 1..Len(records) : records[i] = [round |-> r, skipped |-> TRUE]

IsPrefix(s, t) == Len(s) <= Len(t) /\ SubSeq(t, 1, Len(s)) = s

Resumes(job) == resume_job /\ Head(runningList) = job /\ NotTracked(job.id)

C17_RetryContract ==
    /\ [](\A id \in RequestJobIds :
            /\ id \notin Jobs => retry_response(id) = [status_code |-> 404]
            /\ id \in Jobs =>
                  IF jobStatus[id] \in {"pending", "running", "completed",
                                         "stopped"}
                  THEN retry_response(id) = [status_code |-> 400]
                  ELSE /\ jobStatus[id] = "failed"
                       /\ retry_response(id).status_code = 200
                       /\ retry_response(id).status = "running"
                       /\ retry_response(id).resume_from_round
                              = currentRound[id] + 1)
    /\ [][\A id \in RequestJobIds :
             retry_training_job(id)
                 => /\ id \in Jobs
                    /\ jobStatus[id] = "failed"
                    /\ jobStatus'[id] = "running"
                    /\ currentRound' = currentRound
                    /\ roundMetrics' = roundMetrics]_vars

(* A job that failed in round 2 has been retried and waits to be resumed.  *)
C17_Witness ==
    \E j \in Jobs :
        /\ jobStatus[j] = "running" /\ pc[j] = "idle" /\ j \notin active
        /\ currentRound[j] = 2 /\ Len(roundMetrics[j]) = 1
        /\ retry_response(j) = [status_code |-> 400]

(* C18: for every device id the commands popped, followed by the commands  *)
(* still in its queue, are the commands queued for it in the order queued  *)
(* (so the popped ones are a prefix and none is returned twice); a pop     *)
(* returns the oldest command not yet popped, or null on an empty queue,   *)
(* and then changes nothing; an operation on one device's queue leaves     *)
(* every other device's queue as it is.                                    *)
C18_CommandQueueFifo ==
    /\ [](\A d \in CommandDeviceIds :
            /\ queued[d] = popped[d]
                   \o [i \in 1..Len(cmdQueue[d]) |-> json_loads(cmdQueue[d][i])]
            /\ IsPrefix(popped[d], queued[d])
            /\ get_pending_command_result(d)
                   = IF Len(popped[d]) = Len(queued[d]) THEN <<>>
                     ELSE <<queued[d][Len(popped[d]) + 1]>>)
    /\ [][\A d \in CommandDeviceIds :
             /\ (get_pending_command(d) /\ cmdQueue[d] = <<>>)
                    => UNCHANGED vars
             /\ (get_pending_command(d) /\ cmdQueue[d] # <<>>)
                    => /\ popped'[d] = Append(popped[d], queued[d][Len(popped'[d])])
                       /\ Len(cmdQueue'[d]) = Len(cmdQueue[d]) - 1
             /\ (get_pending_command(d)
                 \/ \E c \in Commands : queue_command(d, c))
                    => \A e \in CommandDeviceIds \ {d} :
                           /\ cmdQueue'[e] = cmdQueue[e]
                           /\ popped'[e] = popped[e]]_vars

(* Two different commands were queued for one device and popped in that    *)
(* order, its queue is empty again and another device's queue is not.      *)
C18_Witness ==
    \E d, e \in CommandDeviceIds :
        /\ d # e
        /\ popped[d] = <<[type |-> "start_training"], [type |-> "stop_training"]>>
        /\ cmdQueue[d] = <<>>
        /\ get_pending_command_result(d) = <<>>
        /\ cmdQueue[e] # <<>>

(* C19: on the heartbeat stream every request taken has its response, in   *)
(* request order and with ack_sequence equal to the request's sequence;    *)
(* taking a request yields exactly one response, which carries the head of *)
(* the device's command queue and removes it, or ack on an empty queue.    *)
C19_OneResponsePerRequest ==
    /\ [](/\ Len(responses) = handled
          /\ \A i \in 1..Len(responses) :
                 responses[i].ack_sequence = requests[i].sequence)
    /\ [][Heartbeat =>
            LET request == requests[handled + 1]
                list == cmdQueue[request.device_id]
            IN /\ Len(responses') = Len(responses) + 1
               /\ responses'[Len(responses')].ack_sequence = request.sequence
               /\ responses'[Len(responses')].command
                      = IF list = <<>> THEN "ack"
                        ELSE json_loads(Head(list)).type
               /\ cmdQueue'[request.device_id]
                      = IF list = <<>> THEN list ELSE Tail(list)]_vars

C21_LegacyPassthrough ==
    (call.fn = "decompress_gradients" /\ result # NoCall)
        => result = [raised |-> FALSE, data |-> call.data]

(* C22: deserializing the serialization of a delta map gives back its      *)
(* layer names and the values of each.                                     *)
C22_SerializeRoundTrip ==
    (call.fn = "serialize_weight_deltas" /\ result # NoCall)
        => /\ DOMAIN result = DOMAIN call.deltas
           /\ \A name \in DOMAIN call.deltas : result[name] = call.deltas[name]

(* The submissions decoded: pairs of a delta map and a sample count. *)
Decoded(gradients) ==
    [i \in 1..Len(gradients) |->
         <<deserialize_weight_deltas(gradients[i][1]), gradients[i][2]>>]

(* The sum of the counts, the sum of s_i * v_i[j] over the submissions     *)
(* that have the layer, and the layer names of all submissions.            *)
RECURSIVE SumSeq(_)
SumSeq(terms) == IF terms = <<>> THEN 0 ELSE Head(terms) + SumSeq(Tail(terms))

Samples(decoded) == SumSeq([i \in 1..Len(decoded) |-> decoded[i][2]])

WeightedSum(decoded, name, j) ==
    SumSeq([i \in 1..Len(decoded) |->
                IF name \in DOMAIN decoded[i][1]
                THEN decoded[i][2] * decoded[i][1][name][j] ELSE 0])

NamesOf(decoded) == UNION {DOMAIN decoded[i][1] : i \in 1..Len(decoded)}

(* x is n / d exactly; x is the float32 nearest to n / d; x is within a  *)
(* relative 2^-ToleranceBits of n / d.                                     *)
ExactlyQuotient(x, n, d) == x.m * d = n * Pow2(x.k)

NearestQuotient(x, n, d) == x = float32_quotient(n, d)

ToleranceBits == 20

NearlyQuotient(x, n, d) ==
    LET e == x.m * d - n * Pow2(x.k)
    IN (IF e < 0 THEN 0 - e ELSE e) <= (n * Pow2(x.k)) \div Pow2(ToleranceBits)

(* The orders in which the submissions can be given. *)
Reorderings(gradients) ==
    {[i \in 1..Len(gradients) |-> gradients[p[i]]] :
         p \in {q \in [1..Len(gradients) -> 1..Len(gradients)] :
                    \A a, b \in 1..Len(gradients) : a # b => q[a] # q[b]}}

(* The result of aggregate_gradients is the weighted mean: each element    *)
(* the float32 nearest to the exact quotient, or (nearly) within the       *)
(* tolerance of it.                                                        *)
IsWeightedMean(mean, decoded, nearly) ==
    IF Samples(decoded) = 0 THEN mean = EmptyDict
    ELSE /\ DOMAIN mean = NamesOf(decoded)
         /\ \A name \in DOMAIN mean : \A j \in 1..Len(mean[name]) :
                IF nearly
                THEN NearlyQuotient(mean[name][j],
                                    WeightedSum(decoded, name, j),
                                    Samples(decoded))
                ELSE NearestQuotient(mean[name][j],
                                     WeightedSum(decoded, name, j),
                                     Samples(decoded))

AggregateCalled == call.fn = "aggregate_gradients" /\ result # NoCall

(* One submission gives its decoded gradient back, whatever its count. *)
SingleSubmission ==
    (AggregateCalled /\ Len(call.gradients) = 1 /\ call.gradients[1][2] > 0)
        => LET deltas == deserialize_weight_deltas(call.gradients[1][1])
           IN result = [name \in DOMAIN deltas |-> ndarray(deltas[name])]

ApplyCalled == call.fn = "apply_gradients" /\ result # NoCall

(* C24: apply_gradients returns exactly the layers of the input weights:   *)
(* a layer that has an averaged delta becomes old + delta, a layer that    *)
(* has none is returned unchanged, deltas of layers the weights lack are   *)
(* ignored, and an empty delta map gives the weights back.                 *)
C24_ApplyGradients ==
    ApplyCalled
        => /\ DOMAIN result = DOMAIN call.weights
           /\ \A name \in DOMAIN call.weights :
                  IF name \in DOMAIN call.grads
                  THEN \A i \in 1..Len(call.weights[name]) :
                           result[name][i]
                               = Normal(call.weights[name][i].m
                                            + call.grads[name][i].m, 0)
                  ELSE result[name] = call.weights[name]
           /\ call.grads = EmptyDict => result = call.weights

(* Weights of two layers met deltas for one of them and for a layer they   *)
(* lack.                                                                   *)
C24_Witness ==
    /\ ApplyCalled
    /\ DOMAIN call.weights = {"hidden_bias", "output_bias"}
    /\ DOMAIN call.grads = {"hidden_bias", "hidden1_bias"}
    /\ call.grads["hidden_bias"][1].m = 7
    /\ result["hidden_bias"] # call.weights["hidden_bias"]

SelectCalled == call.fn = "select_devices" /\ result # NoCall

(* The eligible devices of a list, and the score of a device among them. *)
EligibleOf(devs, cfg) == {d \in Range(devs) : _is_eligible(d, cfg)}

PoolScore(device, devs, cfg) ==
    LET eligible == SelectSeq(devs, LAMBDA d : _is_eligible(d, cfg))
    IN _score_device(device, cfg,
           SeqMax([i \in 1..Len(eligible) |->
                       eligible[i].neural_engine_cores], 0),
           SeqMax([i \in 1..Len(eligible) |-> eligible[i].memory_bytes], 0))

(* a comes before b: a higher score, or the same score and earlier in the  *)
(* input (the id of a row is its place in the input).                      *)
Before(a, b, devs, cfg) ==
    \/ PoolScore(a, devs, cfg) > PoolScore(b, devs, cfg)
    \/ /\ PoolScore(a, devs, cfg) = PoolScore(b, devs, cfg)
       /\ a.id < b.id

(* C25: with the scheduler enabled select_devices returns absent exactly   *)
(* when fewer than min_devices devices are eligible; otherwise only        *)
(* eligible devices, by score descending with ties in input order, all of  *)
(* them when target_devices is unset and the first max(target_devices,     *)
(* min_devices) when it is set, never fewer than min_devices and none      *)
(* twice.  With the scheduler disabled it returns the input list.          *)
C25_SelectDevices ==
    SelectCalled
        => LET devs == call.devices
               cfg == call.cfg
               eligible == EligibleOf(devs, cfg)
               chosen == result.devices
           IN IF ~cfg.enabled THEN result = Selected(devs)
              ELSE /\ result.absent <=> Cardinality(eligible) < call.min_devices
                   /\ ~result.absent
                          => /\ Range(chosen) \subseteq eligible
                             /\ \A i, j \in 1..Len(chosen) :
                                    i < j => Before(chosen[i], chosen[j],
                                                    devs, cfg)
                             /\ \A a \in Range(chosen) :
                                    \A b \in eligible \ Range(chosen) :
                                        Before(a, b, devs, cfg)
                             /\ Len(chosen)
                                    = IF cfg.target_devices = None
                                      THEN Cardinality(eligible)
                                      ELSE Min(Max(cfg.target_devices,
                                                   call.min_devices),
                                               Cardinality(eligible))
                             /\ Len(chosen) >= call.min_devices

(* Three devices, two of them eligible with the same score, target 1 and   *)
(* min_devices 2: both are returned, in input order.                       *)
C25_Witness ==
    /\ SelectCalled
    /\ call.cfg.enabled
    /\ Len(call.devices) = 3
    /\ call.cfg.target_devices = 1
    /\ call.min_devices = 2
    /\ ~result.absent
    /\ Len(result.devices) = 2
    /\ PoolScore(result.devices[1], call.devices, call.cfg)
           = PoolScore(result.devices[2], call.devices, call.cfg)
    /\ call.cfg.weights = _DEFAULT_WEIGHTS

(* The four reasons that make a device ineligible. *)
Ineligible(device, cfg) ==
    \/ device.battery_level # None /\ device.battery_level < cfg.min_battery
    \/ device.is_low_power_mode /\ ~cfg.allow_low_power_mode
    \/ device.thermal_pressure # None
           /\ device.thermal_pressure > cfg.max_thermal_pressure
    \/ device.cpu_usage # None /\ device.cpu_usage > cfg.max_cpu_usage

(* _is_eligible rejects exactly the ineligible devices. *)
EligibilityRule ==
    SelectCalled
        => \A device \in Range(call.devices) :
               _is_eligible(device, call.cfg) <=> ~Ineligible(device, call.cfg)

(* No ineligible device of the input was scored or is in the result. *)
IneligibleLeftOut ==
    \A device \in Range(call.devices) :
        Ineligible(device, call.cfg)
            => /\ device \notin scored_devices(call.devices, call.cfg,
                                               call.min_devices)
               /\ device \notin Range(result.devices)

(* C26 as stated: a device is ineligible exactly for one of the four       *)
(* reasons (a level at a threshold and a missing metric pass), and an      *)
(* ineligible device is never scored or selected.                          *)
C26_IneligibleNeverSelected ==
    /\ EligibilityRule
    /\ SelectCalled => IneligibleLeftOut

(* C26, amended: a device is ineligible exactly for one of the four        *)
(* reasons (a level at a threshold and a missing metric pass), and with    *)
(* the scheduler enabled an ineligible device is never scored or selected. *)
C26_IneligibleLeftOutWhenEnabled ==
    /\ EligibilityRule
    /\ (SelectCalled /\ call.cfg.enabled) => IneligibleLeftOut

(* An enabled scheduler was given a device with a battery below            *)
(* min_battery and returned the others.                                    *)
C26_Witness ==
    /\ SelectCalled
    /\ call.cfg.enabled
    /\ \E device \in Range(call.devices) : Ineligible(device, call.cfg)
    /\ ~result.absent
    /\ result.devices # <<>>

(* The device with one sub-score input raised: a higher battery level, a  *)
(* charging or full battery, a lower thermal pressure, cpu or memory       *)
(* usage, more neural cores or more memory.                                *)
Raised(d) ==
    {[d EXCEPT !.battery_level = x] :
         x \in {y \in {min_battery, HighBattery, 100} :
                    d.battery_level # None /\ y > d.battery_level}}
        \cup {[d EXCEPT !.battery_state = x] :
                  x \in {y \in {"charging", "full"} :
                             d.battery_state \notin {"charging", "full"}}}
        \cup {[d EXCEPT !.thermal_pressure = x] :
                  x \in {y \in {0, 30} : d.thermal_pressure # None
                                            /\ y < d.thermal_pressure}}
        \cup {[d EXCEPT !.cpu_usage = x] :
                  x \in {y \in {0, 30} : d.cpu_usage # None /\ y < d.cpu_usage}}
        \cup {[d EXCEPT !.memory_usage = x] :
                  x \in {y \in {0, 20} : d.memory_usage # None
                                            /\ y < d.memory_usage}}
        \cup {[d EXCEPT !.neural_engine_cores = x] :
                  x \in {y \in {8, 16, 32} : y > d.neural_engine_cores}}
        \cup {[d EXCEPT !.memory_bytes = x] :
                  x \in {y \in {4, 8, 16} : y > d.memory_bytes}}

(* The place of the device with this id in a list, 0 when it is not there. *)
PlaceOf(id, devs) ==
    IF \E i \in 1..Len(devs) : devs[i].id = id
    THEN CHOOSE i \in 1..Len(devs) : devs[i].id = id
    ELSE 0

(* The list select_devices returns when the device is replaced by better. *)
SelectedWith(better) ==
    select_devices([call.devices EXCEPT ![better.id] = better], call.cfg,
                   call.min_devices)

(* C27: raising one sub-score input of a returned device, every other      *)
(* input of every device staying equal, never moves the device to a later  *)
(* place in the list select_devices returns.                               *)
C27_Monotonicity ==
    (SelectCalled /\ call.cfg.enabled /\ ~result.absent)
        => \A i \in 1..Len(result.devices) :
               \A better \in Raised(result.devices[i]) :
                   LET place == PlaceOf(better.id, SelectedWith(better).devices)
                   IN place >= 1 /\ place <= i

(* A device of a pool of three moved to an earlier place when one of its   *)
(* inputs was raised.                                                      *)
C27_Witness ==
    /\ SelectCalled
    /\ call.cfg.enabled
    /\ ~result.absent
    /\ Len(result.devices) = 3
    /\ \E better \in Raised(result.devices[3]) :
           PlaceOf(better.id, SelectedWith(better).devices) = 1

(* C28: the sweep sets a device offline only if the device is online, its  *)
(* heartbeat key is absent and its last_seen_at is older than the timeout. *)
C28_SweepOnlyStale ==
    [][SweepWrite
           => LET d == Head(sweepList).id
              IN devStatus[d] = "online" /\ ~hbKey[d] /\ seenOld[d]]_vars

(* C29: while a job with status "running" references a model, the          *)
(* delete-model operation on it is rejected and its row and blob remain.   *)
C29_NoDeleteWhileRunning ==
    [][\A m \in Models :
          ((\E j \in Jobs : jobStatus[j] = "running" /\ ModelOf(j) = m)
               /\ delete_model(m))
              => /\ result'.status_code # 200
                 /\ m \in modelRows'
                 /\ blob'[m] = blob[m]]_vars

(* C30: the version of a model starts at 0 and goes up by exactly one with *)
(* each aggregated round, in the model row and in the meta key, so that it *)
(* never decreases: a change of the row's version is a step of one, a      *)
(* change of the meta version is a step of one, and a meta key that is     *)
(* written again does not fall behind the version of the row.              *)
C30_VersionCountsRounds ==
    /\ \A m \in Models :
           (\A j \in Jobs : jobStatus[j] = "pending") => modelVersion[m] = 0
    /\ [][\A m \in Models :
             /\ modelVersion'[m] \in {modelVersion[m], modelVersion[m] + 1}
             /\ (meta[m] # None /\ meta'[m] # None)
                    => meta'[m] \in {meta[m], meta[m] + 1}
             /\ (meta[m] = None /\ meta'[m] # None)
                    => meta'[m] >= modelVersion'[m]]_vars

(* C31: the durable status of a job becomes "completed" only by the step   *)
(* of a loop that has run past round num_rounds; in the state that step    *)
(* leaves, current_round = num_rounds, every round 1..num_rounds has a     *)
(* record in the durable round_metrics.rounds and the model's status is    *)
(* "trained" (completed_at is written by the same update as the status).   *)
(* This holds also for a loop that resume_job created.                     *)
Completes(j) == jobStatus[j] # "completed" /\ jobStatus'[j] = "completed"

C31_CompletedAfterAllRounds ==
    [][\A j \in Jobs :
          Completes(j)
              => /\ pc[j] = "complete" /\ roundNum[j] = NumRounds + 1
                 /\ currentRound'[j] = NumRounds
                 /\ \A r \in Rounds : HasRecord(roundMetrics'[j], r)
                 /\ modelStatus'[ModelOf(j)] = "trained"]_vars

(***************************************************************************)
(* The polling loop holds the rows it listed over every await of a pass    *)
(* (the session exit after the two list_all calls, and for each pending    *)
(* job of the pass an update and the Redis and database calls of           *)
(* start_job), and nothing bounds what the training loops do meanwhile.    *)
(* PollHolds is one more such await; SpecStale is the system without a     *)
(* bound on the age of the listed rows.                                    *)
(***************************************************************************)
PollHolds ==
    /\ ~ListsEmpty
    /\ stale > 0
    /\ stale' = 0
    /\ UNCHANGED <<jobVars, modelVars, devVars, redisVars, loopVars, pollVars>>
    /\ UNCHANGED monitorVars
    /\ UNCHANGED rpcVars
    /\ UNCHANGED libVars

NextStale ==
    \/ Next
    \/ PollHolds

SpecStale == Init /\ [][NextStale]_vars

(* C32: current_round of every job is always within 0..num_rounds, and no  *)
(* step (start, round, stop, failure, retry, resume) decreases it.         *)
C32_CurrentRoundMonotone ==
    /\ [](\A j \in Jobs : currentRound[j] \in 0..NumRounds)
    /\ [][\A j \in Jobs : currentRound'[j] >= currentRound[j]]_vars

(***************************************************************************)
(* The dispatch of a round (training_coordinator.py 264-280):              *)
(*   for i, device in enumerate(devices): queue_command(str(device.id),    *)
(*       {"type": "start_training", "parameters": {...}})                  *)
(* Each queue_command is one rpush on the queue of one device; pushes on   *)
(* different keys and the pops of the devices commute, so the pushes of    *)
(* one attempt are taken as one step.                                      *)
(***************************************************************************)
Digits == <<"0", "1", "2", "3", "4", "5", "6", "7", "8", "9">>

(* str(n) of a non-negative int: its decimal digits. *)
RECURSIVE str(_)
str(n) ==
    IF n < 10 THEN <<Digits[n + 1]>>
    ELSE str(n \div 10) \o <<Digits[(n % 10) + 1]>>

(* Mutant: the partition index counts from one. *)
start_training_command_from_one(job_id, model_id, round_num, i, n) ==
    [type |-> "start_training",
     parameters |-> [job_id |-> job_id,
                     model_id |-> model_id,
                     round |-> str(round_num),
                     partition_index |-> str(i + 1),
                     partition_total |-> str(n)]]

(* The command dict of the device at index i (from 0) of n devices; the    *)
(* architecture key is the same for every command of a job and left out.   *)
start_training_command(job_id, model_id, round_num, i, n) ==
    [type |-> "start_training",
     parameters |-> [job_id |-> job_id,
                     model_id |-> model_id,
                     round |-> str(round_num),
                     partition_index |-> str(i),
                     partition_total |-> str(n)]]

(* enumerate(devices) with the command of each: device ids in list order.  *)
dispatch_commands(job_id, model_id, round_num, devs) ==
    [k \in 1..Len(devs) |->
        [device_id |-> devs[k],
         command |-> start_training_command(job_id, model_id, round_num,
                                            k - 1, Len(devs))]]

(* The queues after queue_command of each command in turn. *)
RECURSIVE queue_commands(_, _)
queue_commands(queues, commands) ==
    IF commands = <<>> THEN queues
    ELSE queue_commands(
             [queues EXCEPT ![Head(commands).device_id] =
                  rpush(@, json_dumps(Head(commands).command))],
             Tail(commands))

(* The same for the record of what queue_command was given. *)
RECURSIVE record_commands(_, _)
record_commands(history, commands) ==
    IF commands = <<>> THEN history
    ELSE record_commands(
             [history EXCEPT ![Head(commands).device_id] =
                  Append(@, Head(commands).command)],
             Tail(commands))

(* The dispatch step of job j's loop with its queue writes. *)
DispatchQueued(j) ==
    /\ DispatchStep(j)
    /\ LET commands == dispatch_commands(j, ModelOf(j), roundNum[j], devices[j])
       IN /\ cmdQueue' = queue_commands(cmdQueue, commands)
          /\ queued' = record_commands(queued, commands)
    /\ UNCHANGED <<popped, streamVars>>

(* The selections the dispatch loop is applied to on its own: lists of     *)
(* distinct device ids, of a fleet one device larger than the registered   *)
(* one.                                                                    *)
Selections ==
    {s \in SeqsUpTo(CommandDeviceIds, NumDevices + 1) :
        \A a, b \in 1..Len(s) : a # b => s[a] # s[b]}

(* The dispatch loop applied to one selection for one round. *)
CallDispatch ==
    /\ call.fn = "dispatch"
    /\ result = NoCall
    /\ LET commands == dispatch_commands(call.job_id, call.model_id,
                                         call.round_num, call.devices)
       IN /\ cmdQueue' = queue_commands(cmdQueue, commands)
          /\ queued' = record_commands(queued, commands)
          /\ result' = [value |-> Len(commands)]
    /\ UNCHANGED <<popped, streamVars, orchestratorVars, modelRows, call>>

(* A device takes its next command (the pop of its heartbeat stream). *)
DevicePops(d) ==
    /\ cmdQueue[d] # <<>>
    /\ get_pending_command(d)

InitDispatch ==
    /\ InitStores
    /\ call \in {NoCall}
               \cup {[fn |-> "dispatch", job_id |-> j, model_id |-> ModelOf(j),
                      round_num |-> r, devices |-> s] :
                         j \in Jobs, r \in Rounds, s \in Selections}
    /\ result = NoCall

(* Either the dispatch loop on its own, or the coordinator with devices    *)
(* that come online and never upload, so that every round is dispatched    *)
(* three times; the devices take their commands at any time; nobody stops  *)
(* or retries a job.                                                       *)
NextDispatch ==
    \/ CallDispatch
    \/ call = NoCall /\ PollList
    \/ call = NoCall /\ PollMarkRunning
    \/ call = NoCall /\ start_job
    \/ call = NoCall /\ resume_job
    \/ call = NoCall /\ \E j \in Jobs : RoundBegin(j)
    \/ call = NoCall /\ \E j \in Jobs : DeviceWait(j)
    \/ call = NoCall /\ \E j \in Jobs : DeviceWaitExhausted(j)
    \/ call = NoCall /\ \E j \in Jobs : Reserve(j)
    \/ call = NoCall /\ \E j \in Jobs : DispatchQueued(j)
    \/ call = NoCall /\ \E j \in Jobs : WaitForGradients(j)
    \/ call = NoCall /\ \E j \in Jobs : RoundRetry(j)
    \/ call = NoCall /\ \E j \in Jobs : RoundSkip(j)
    \/ call = NoCall /\ \E j \in Jobs : SkipRelease(j)
    \/ call = NoCall /\ \E j \in Jobs : Complete(j)
    \/ call = NoCall /\ \E j \in Jobs : CleanupKeep(j)
    \/ call = NoCall /\ \E j \in Jobs : Finally(j)
    \/ call = NoCall /\ \E d \in Devices : process_heartbeat(d, BatteryOf(d))
    \/ \E d \in CommandDeviceIds : DevicePops(d)

SpecDispatch == InitDispatch /\ [][NextDispatch]_vars

(* int(s) of a decimal string, as the device reads a parameter. *)
RECURSIVE int(_)
int(s) ==
    IF s = <<>> THEN 0
    ELSE 10 * int(SubSeq(s, 1, Len(s) - 1))
         + (CHOOSE d \in 0..9 : Digits[d + 1] = s[Len(s)])

(* The selection, round, job and model of a dispatch attempt in progress. *)
Dispatching ==
    IF call.fn = "dispatch"
    THEN IF result = NoCall
         THEN {[devices |-> call.devices, round_num |-> call.round_num,
                job_id |-> call.job_id, model_id |-> call.model_id]}
         ELSE {}
    ELSE {[devices |-> devices[j], round_num |-> roundNum[j],
           job_id |-> j, model_id |-> ModelOf(j)] :
              j \in {i \in Jobs : pc[i] = "dispatch"}}

DispatchDone ==
    IF call.fn = "dispatch" THEN result' # NoCall
    ELSE \E j \in Jobs : pc[j] = "dispatch" /\ pc'[j] = "collect"

(* C33: a dispatch attempt of round r over the selection of N devices      *)
(* appends exactly one start_training command to the queue of each device  *)
(* of the selection and leaves every other queue as it is; the command     *)
(* carries round = r and partition_total = N, and the partition_index of   *)
(* the device at place k of the selection is k - 1, so the indices are     *)
(* pairwise distinct and cover 0..N-1 in selection order.                  *)
C33_DispatchPartitions ==
    [][\A a \in Dispatching :
          DispatchDone
            => LET N == Len(a.devices)
                   sent_to(d) == {k \in 1..N : a.devices[k] = d}
               IN /\ \A d \in CommandDeviceIds :
                        IF sent_to(d) = {}
                        THEN cmdQueue'[d] = cmdQueue[d]
                        ELSE /\ Cardinality(sent_to(d)) = 1
                             /\ Len(cmdQueue'[d]) = Len(cmdQueue[d]) + 1
                             /\ SubSeq(cmdQueue'[d], 1, Len(cmdQueue[d]))
                                    = cmdQueue[d]
                             /\ LET c == json_loads(cmdQueue'[d][Len(cmdQueue'[d])])
                                IN /\ c.type = "start_training"
                                   /\ c.parameters.job_id = a.job_id
                                   /\ c.parameters.model_id = a.model_id
                                   /\ int(c.parameters.round) = a.round_num
                                   /\ int(c.parameters.partition_total) = N
                                   /\ \A k \in sent_to(d) :
                                          int(c.parameters.partition_index) = k - 1
                  /\ {int(json_loads(cmdQueue'[a.devices[k]]
                                       [Len(cmdQueue'[a.devices[k]])])
                              .parameters.partition_index) : k \in 1..N}
                         = 0..(N - 1)]_vars

(* The dispatch loop has queued the commands of round 2 for a selection of *)
(* two devices, the device with the larger id first.                       *)
C33_Witness ==
    /\ call.fn = "dispatch" /\ result # NoCall
    /\ call.round_num = 2
    /\ Len(call.devices) = 2 /\ call.devices[1] > call.devices[2]
    /\ \A d \in Range(call.devices) : Len(cmdQueue[d]) = 1
    /\ json_loads(cmdQueue[call.devices[1]][1]).parameters.partition_index
           = <<"0">>
    /\ json_loads(cmdQueue[call.devices[2]][1]).parameters.partition_index
           = <<"1">>

(***************************************************************************)
(* _wait_for_gradients(key, expected, timeout) on its own, while devices   *)
(* upload to the bucket of the key.  The call record carries the locals of *)
(* the call: elapsed, and the number of llen polls made so far.            *)
(***************************************************************************)
WaitCalls ==
    [fn : {"_wait_for_gradients"}, model_id : Models, round : Rounds,
     expected : 0..(NumDevices + 1),
     timeout : 0..(training_round_timeout_seconds + 1),
     elapsed : {0}, polls : {0}]

(* One iteration of the while loop, or the exit of the loop, the lrange    *)
(* and the return.                                                         *)
wait_for_gradients ==
    /\ call.fn = "_wait_for_gradients"
    /\ result = NoCall
    /\ LET key == bucket[call.model_id][call.round]
           polled == IF call.elapsed < call.timeout THEN 1 ELSE 0
       IN IF wait_continues(call.elapsed, call.timeout, Len(key), call.expected)
          THEN /\ call' = [call EXCEPT !.elapsed = @ + poll_interval,
                                       !.polls = @ + polled]
               /\ UNCHANGED result
          ELSE /\ call' = [call EXCEPT !.polls = @ + polled]
               /\ result' = [value |-> key]
    /\ UNCHANGED <<orchestratorVars, rpcVars, modelRows>>

(* A device uploads to the bucket the call waits on, until the bucket      *)
(* holds one envelope more than expected.                                  *)
UploadWhileWaiting ==
    /\ call.fn = "_wait_for_gradients"
    /\ Len(bucket[call.model_id][call.round]) <= call.expected
    /\ \E request \in Uploads(call.model_id, call.round) :
           SubmitGradients(request)

InitWait ==
    /\ InitStores
    /\ call \in WaitCalls
    /\ result = NoCall

NextWait ==
    \/ wait_for_gradients
    \/ UploadWhileWaiting

SpecWait == InitWait /\ [][NextWait]_vars

(* The call is a coroutine of the event loop: its next step is taken once  *)
(* its await (llen, sleep, lrange) returns.                                *)
FairSpecWait == SpecWait /\ WF_vars(wait_for_gradients)

(* ceil(timeout / poll_interval) for a timeout that is not negative. *)
CeilPolls(timeout) == (timeout + poll_interval - 1) \div poll_interval

WaitReturns == result = NoCall /\ result' # NoCall

(* C34: _wait_for_gradients returns eventually.  It returns at the first   *)
(* poll that finds the bucket length >= expected, and otherwise after      *)
(* ceil(timeout / 2) polls with 2 seconds between them; what it returns is *)
(* the whole bucket as it then is, in the order of the list, whether it    *)
(* has fewer or more than expected entries; no step of the call changes    *)
(* the bucket.                                                             *)
C34_WaitForGradients ==
    /\ <>(result # NoCall)
    /\ [][LET key == bucket[call.model_id][call.round]
          IN /\ (wait_for_gradients /\ call.elapsed < call.timeout
                   /\ Len(key) >= call.expected)
                     => WaitReturns
             /\ (wait_for_gradients /\ ~WaitReturns)
                     => /\ Len(key) < call.expected
                        /\ call'.elapsed = call.elapsed + 2
                        /\ call'.polls = call.polls + 1
             /\ WaitReturns
                     => /\ result'.value = key
                        /\ Len(key) < call.expected
                              => /\ call'.polls = CeilPolls(call.timeout)
                                 /\ call'.elapsed = 2 * call'.polls
             /\ wait_for_gradients => bucket' = bucket]_vars

(* A call with expected = 2 and a timeout of 3 seconds has returned after  *)
(* its second poll with the one envelope that was uploaded meanwhile.      *)
C34_Witness ==
    /\ call.fn = "_wait_for_gradients" /\ result # NoCall
    /\ call.expected = 2 /\ call.timeout = 3
    /\ call.polls = 2 /\ call.elapsed = 4
    /\ Len(result.value) = 1
    /\ result.value = bucket[call.model_id][call.round]

(***************************************************************************)
(* _cleanup_redis_keys(job_id, model_id, keep_model) on its own, in a      *)
(* keyspace that holds keys of two jobs and two models.                    *)
(***************************************************************************)
JobPair == {1, 2}
ModelPair == {1, 2}

(* "effective_model_id = model_id or job_id". *)
effective_model_id(model_id, job_id) ==
    IF model_id # None THEN model_id ELSE job_id

CleanupCalls ==
    [fn : {"_cleanup_redis_keys"}, job_id : JobPair,
     model_id : ModelPair \cup {None}, keep_model : BOOLEAN]

_cleanup_redis_keys ==
    /\ call.fn = "_cleanup_redis_keys"
    /\ result = NoCall
    /\ LET m == effective_model_id(call.model_id, call.job_id)
       IN /\ stopFlag' = CleanupStopFlag(call.job_id)
          /\ blob' = CleanupBlob(m, call.keep_model)
          /\ meta' = CleanupMeta(m, call.keep_model)
          /\ bucket' = CleanupBuckets(m)
    /\ result' = [value |-> None]
    /\ UNCHANGED <<jobVars, modelVars, devVars, loopVars, pollVars, stale,
                   monitorVars, rpcVars, modelRows, call>>

(* Any keyspace: each key present or not, whatever wrote it. *)
InitCleanup ==
    /\ InitRows(JobPair, ModelPair)
    /\ stopFlag \in [JobPair -> BOOLEAN]
    /\ blob \in [ModelPair -> {None, 0}]
    /\ meta \in [ModelPair -> {None, 0}]
    /\ bucket \in [ModelPair -> [Rounds -> {<<>>, <<"ok">>}]]
    /\ call \in CleanupCalls
    /\ result = NoCall

NextCleanup == _cleanup_redis_keys

SpecCleanup == InitCleanup /\ [][NextCleanup]_vars

(* C35: _cleanup_redis_keys(job, model, keep_model) deletes the stop flag  *)
(* of the job and every gradient bucket of the model; with keep_model it   *)
(* leaves the model's blob and meta as they are, without it it deletes     *)
(* both; the stop flags of other jobs and the blob, meta and buckets of    *)
(* other models are as they were.                                          *)
C35_CleanupFrame ==
    [][(result = NoCall /\ result' # NoCall)
         => LET j == call.job_id
                m == IF call.model_id = None THEN j ELSE call.model_id
            IN /\ ~stopFlag'[j]
               /\ \A r \in Rounds : bucket'[m][r] = <<>>
               /\ IF call.keep_model
                  THEN blob'[m] = blob[m] /\ meta'[m] = meta[m]
                  ELSE blob'[m] = None /\ meta'[m] = None
               /\ \A i \in JobPair \ {j} : stopFlag'[i] = stopFlag[i]
               /\ \A n \in ModelPair \ {m} :
                      /\ blob'[n] = blob[n]
                      /\ meta'[n] = meta[n]
                      /\ bucket'[n] = bucket[n]]_vars

(* The cleanup of job 1 on model 2 with keep_model has run: the flag of    *)
(* job 1 and the buckets of model 2 are gone, the blob of model 2, the     *)
(* flag of job 2 and the keys of model 1 are still there.                  *)
C35_Witness ==
    /\ call.fn = "_cleanup_redis_keys" /\ result # NoCall
    /\ call.job_id = 1 /\ call.model_id = 2 /\ call.keep_model
    /\ ~stopFlag[1] /\ stopFlag[2]
    /\ blob[2] = 0 /\ meta[2] = 0
    /\ \A r \in Rounds : bucket[2][r] = <<>> /\ bucket[1][r] # <<>>
    /\ blob[1] = 0

(***************************************************************************)
(* Two jobs on one model.  Both job rows are pending after construction    *)
(* and ask for the same model; the coordinator runs one task per job, and  *)
(* the tasks interleave at every await.  The scheduler is disabled, so a   *)
(* device wait takes whatever is online; stop requests arrive for the jobs *)
(* of StoppableJobs.                                                       *)
(***************************************************************************)
StoppableJobs == {1}

InitTwoJobs ==
    /\ InitRows(JobPair, Models)
    /\ InitRedis(JobPair, Models)
    /\ schedEnabled = [j \in JobPair |-> FALSE]
    /\ call = NoCall
    /\ result = NoCall

(* The payload a device trains on job j's start_training command: the      *)
(* command carries the job id, and the payload is named after it.          *)
trained_for(j) == <<"job_1", "job_2">>[j]

(* A device of job j's selection answers the command of the round in       *)
(* progress: SubmitGradients for the job's model and round.                *)
DeviceUploads(j, d) ==
    /\ pc[j] = "collect"
    /\ d \in Range(devices[j])
    /\ Len(bucket[ModelOf(j)][roundNum[j]]) < Len(devices[j])
    /\ SubmitGradients([device_id |-> d, model_id |-> ModelOf(j),
                        training_round |-> roundNum[j], num_samples |-> 1,
                        gradients |-> [size |-> 4,
                                       content |-> trained_for(j)]])

NextTwoJobs ==
    \/ PollList
    \/ PollMarkRunning
    \/ start_job
    \/ resume_job
    \/ \E j \in JobPair : RoundBegin(j)
    \/ \E j \in JobPair : DeviceWait(j)
    \/ \E j \in JobPair : Reserve(j)
    \/ \E j \in JobPair : Dispatch(j)
    \/ \E j \in JobPair : WaitForGradients(j)
    \/ \E j \in JobPair : RoundRetry(j)
    \/ \E j \in JobPair : RoundSkip(j)
    \/ \E j \in JobPair : SkipRelease(j)
    \/ \E j \in JobPair : Aggregate(j)
    \/ \E j \in JobPair : RoundEnd(j)
    \/ \E j \in JobPair : Complete(j)
    \/ \E j \in JobPair : Except(j)
    \/ \E j \in JobPair : CleanupStop(j)
    \/ \E j \in JobPair : CleanupKeep(j)
    \/ \E j \in JobPair : Finally(j)
    \/ \E j \in StoppableJobs : stop_training_job(j)
    \/ \E d \in Devices : process_heartbeat(d, BatteryOf(d))
    \/ \E j \in JobPair, d \in Devices : DeviceUploads(j, d)

SpecTwoJobs == InitTwoJobs /\ [][NextTwoJobs]_vars

(* Job j is in a round with a recorded selection: from the selection of    *)
(* the device wait to the release at the end of the round.                 *)
RoundOpen(j) ==
    pc[j] \in {"reserve", "dispatch", "collect", "collected", "round_end",
               "skip_release"}

(* Job j has marked device d "training" and not yet released it. *)
HoldsReserved(j, d) ==
    /\ pc[j] \in {"dispatch", "collect", "collected", "round_end",
                  "skip_release"}
    /\ d \in Range(devices[j])

(* C36: a device is reserved by at most one job at a time: no device is in *)
(* the recorded selection of two rounds that are in progress at the same   *)
(* time, and no step of one job's task returns to "online" a device that   *)
(* the other job still holds reserved.                                     *)
C36_ReservedByOneJob ==
    /\ [](\A a, b \in JobPair : \A d \in Devices :
            (a # b /\ RoundOpen(a) /\ RoundOpen(b))
                => ~(d \in Range(devices[a]) /\ d \in Range(devices[b])))
    /\ [][\A a, b \in JobPair : \A d \in Devices :
            (a # b /\ pc'[a] # pc[a] /\ HoldsReserved(b, d)
                   /\ devStatus[d] = "training")
                => devStatus'[d] # "online"]_vars

(* Job j's task is alive and its row says running. *)
StillRunning(j) ==
    /\ jobStatus[j] = "running"
    /\ pc[j] \notin {"idle", "finally"}

(* Job j's task performs its stop or failure cleanup. *)
CleansUp(j) ==
    /\ pc[j] \in {"cleanup_stop", "cleanup_keep"}
    /\ pc'[j] = "finally"

(* C37: two jobs on one model do not interfere through the blob store: a   *)
(* job aggregates only submissions that were made for its own command, and *)
(* the stop or failure cleanup of one job leaves the model blob, the meta  *)
(* and the bucket of the round in progress of the other, still running job *)
(* as they are.                                                            *)
C37_JobsDoNotInterfere ==
    /\ [][\A b \in JobPair :
            (pc[b] = "collected" /\ pc'[b] = "round_end")
                => \A i \in 1..Len(collected[b]) :
                       collected[b][i] = trained_for(b)]_vars
    /\ [][\A a, b \in JobPair :
            (a # b /\ ModelOf(a) = ModelOf(b) /\ CleansUp(a) /\ StillRunning(b))
                => /\ blob'[ModelOf(b)] = blob[ModelOf(b)]
                   /\ meta'[ModelOf(b)] = meta[ModelOf(b)]
                   /\ RoundOpen(b) =>
                        bucket'[ModelOf(b)][roundNum[b]]
                            = bucket[ModelOf(b)][roundNum[b]]]_vars

(***************************************************************************)
(* One job, its devices and the stop API, under fair scheduling.  A device *)
(* sends heartbeats or not, and a device that was sent start_training      *)
(* submits or not, in time or late: while the round waits, or between the  *)
(* collect and the next dispatch.  SubmitGradients rejects a request       *)
(* without samples or gradient bytes, so what a device can leave in the    *)
(* bucket is a well-formed or a malformed payload.                         *)
(***************************************************************************)
RoundDispatching(m, r) ==
    \E j \in DOMAIN pc : /\ ModelOf(j) = m
                          /\ roundNum[j] = r
                          /\ pc[j] \in {"dispatch", "collect", "collected"}

NextLoop ==
    \/ PollList
    \/ PollMarkRunning
    \/ start_job
    \/ resume_job
    \/ \E j \in Jobs : RoundBegin(j)
    \/ \E j \in Jobs : DeviceWait(j)
    \/ \E j \in Jobs : DeviceWaitExhausted(j)
    \/ \E j \in Jobs : Reserve(j)
    \/ \E j \in Jobs : Dispatch(j)
    \/ \E j \in Jobs : WaitForGradients(j)
    \/ \E j \in Jobs : RoundRetry(j)
    \/ \E j \in Jobs : RoundSkip(j)
    \/ \E j \in Jobs : SkipRelease(j)
    \/ \E j \in Jobs : Aggregate(j)
    \/ \E j \in Jobs : RoundEnd(j)
    \/ \E j \in Jobs : Complete(j)
    \/ \E j \in Jobs : Except(j)
    \/ \E j \in Jobs : CleanupStop(j)
    \/ \E j \in Jobs : CleanupKeep(j)
    \/ \E j \in Jobs : Finally(j)
    \/ \E j \in Jobs : stop_training_job(j)
    \/ \E d \in Devices : process_heartbeat(d, BatteryOf(d))
    \/ \E m \in Models, r \in Rounds :
           /\ RoundDispatching(m, r)
           /\ BucketHasRoom(m, r)
           /\ \E request \in Uploads(m, r) : SubmitGradients(request)

(* The polling loop and the training-loop task are asyncio tasks of one    *)
(* event loop: each takes its next step once its await returns.            *)
FairSpecLoop ==
    /\ Init /\ [][NextLoop]_vars
    /\ WF_vars(PollStep)
    /\ \A j \in Jobs : WF_vars(LoopStep(j))

(* C38: every training loop terminates: the device wait makes at most      *)
(* max_device_wait_retries attempts, a round at most max_round_retries + 1 *)
(* dispatches, a collect ends at the first poll at or after the round      *)
(* timeout, and every job that is in the active set eventually has a       *)
(* terminal status and is out of the active set.                           *)
C38_LoopTerminates ==
    /\ [](\A j \in Jobs :
            /\ attempt[j] <= max_device_wait_retries
            /\ sent[j] <= max_round_retries + 1
            /\ elapsed[j] <= CeilPolls(training_round_timeout_seconds)
                                 * poll_interval)
    /\ \A j \in Jobs :
           (j \in active) ~> (j \notin active /\ jobStatus[j] \in Terminal)

(* A job whose devices never submitted: every attempt of a round timed     *)
(* out, the round was skipped, and the job has ended.                      *)
C38_Witness ==
    \E j \in Jobs :
        /\ j \notin active
        /\ pc[j] = "idle"
        /\ jobStatus[j] = "completed"
        /\ \E i \in 1..Len(roundMetrics[j]) : roundMetrics[j][i].skipped

(***************************************************************************)
(* The same system when devices also act on what is out of date: a device  *)
(* pops a start_training command of a round that is over, or finishes      *)
(* training after the round's deadline, and submits for that round.        *)
(* SubmitGradients takes the model id and the round from the request.      *)
(***************************************************************************)
StaleSubmission(m, r) ==
    /\ ~RoundDispatching(m, r)
    /\ Len(bucket[m][r]) < NumDevices
    /\ \E request \in Uploads(m, r) : SubmitGradients(request)

NextLate ==
    \/ NextLoop
    \/ \E m \in Models, r \in Rounds : StaleSubmission(m, r)

SpecLate == Init /\ [][NextLate]_vars

(* Job j's task goes on from round roundNum[j] to the next. *)
RoundEnds(j) == roundNum[j] \in Rounds /\ roundNum'[j] = roundNum[j] + 1

(* Job j has a terminal status and no task. *)
Ended(j) == jobStatus[j] \in Terminal /\ j \notin active

(* C39: the bucket of round r is gone when round r ends, and once a job    *)
(* has ended with a terminal status no bucket of its model exists, also    *)
(* when devices submit for a round that is over.                           *)
C39_BucketsDeleted ==
    /\ [][\A j \in Jobs :
            RoundEnds(j) => bucket'[ModelOf(j)][roundNum[j]] = <<>>]_vars
    /\ [](\A j \in Jobs :
            Ended(j) => \A r \in Rounds : bucket[ModelOf(j)][r] = <<>>)

(* The polling loop creates job j's training-loop task. *)
LoopStarted(j) == j \notin active /\ j \in active'

(* C40: a training loop is started or resumed only for a job whose durable *)
(* status is "running" at that moment.                                     *)
C40_StartedOnlyIfRunning ==
    [][\A j \in Jobs : LoopStarted(j) => jobStatus[j] = "running"]_vars

=============================================================================
